---------------------------- MODULE Spec2Model ----------------------------
(***************************************************************************)
(* Model of the CRUB data-aggregation core:                                *)
(*   - CourseTeamService (crub_courses/services/course_team_service.py):   *)
(*     refresh_data, detect_unique_courses and the two enrichment passes;  *)
(*   - DesignacionesService (redesignaciones/services/designaciones.py):   *)
(*     the Huayca memo cache and get_designaciones_with_materias;          *)
(*   - the two source clients (crub_courses/api/clients.py);               *)
(*   - the routes of redesignaciones/main.py and the module-level service  *)
(*     of crub_courses/ui/fastapi_app.py.                                  *)
(*                                                                         *)
(* Python's None is the empty tuple and a present value x is <<x>>, so an  *)
(* empty list that was fetched (<< <<>> >>) differs from "never fetched".  *)
(* A missing, null or empty string field of a raw record is "".            *)
(***************************************************************************)
EXTENDS Integers, Sequences, FiniteSets, TLC

VARIABLES
    sheetMaterias,           \* remote sheet materias_equipo (source A)
    sheetDesignaciones,      \* remote sheet designaciones_docentes (source A)
    huaycaMaterias,          \* remote Huayca materias (source B)
    materias_equipo_cache,   \* CourseTeamService._materias_equipo_cache
    designaciones_cache,     \* CourseTeamService._designaciones_cache
    huayca_cache,            \* CourseTeamService._huayca_cache
    lastOp,                  \* what the last CourseTeamService call did
    ds_huayca_cache,         \* DesignacionesService._huayca_cache
    pc,                      \* per request thread: position in its call
    fetched,                 \* per request thread: local result of its fetch
    callLog,                 \* completed _get_huayca_data/clear_cache calls
    fetchLog,                \* results of DesignacionesService's Huayca fetches
    sinceClear,              \* which calls, fetches and cached data postdate the last clear_cache()
    dsLastOp,                \* what the last DesignacionesService aggregation did
    exchanges,               \* source clients: the requests made and their results
    httpResponse,            \* redesignaciones app: the last HTTP response
    _service_instance        \* crub_courses app: the module-level service, if created

vars == <<sheetMaterias, sheetDesignaciones, huaycaMaterias,
          materias_equipo_cache, designaciones_cache, huayca_cache, lastOp,
          ds_huayca_cache, pc, fetched, callLog, fetchLog, sinceClear, dsLastOp,
          exchanges, httpResponse, _service_instance>>

envVars == <<sheetMaterias, sheetDesignaciones, huaycaMaterias>>
ctsVars == <<materias_equipo_cache, designaciones_cache, huayca_cache, lastOp>>
dsVars == <<ds_huayca_cache, pc, fetched, callLog, fetchLog, sinceClear, dsLastOp>>
clientVars == <<exchanges>>
httpVars == <<httpResponse, _service_instance>>

-----------------------------------------------------------------------------
(* Bounds of the model.                                                    *)

MaxRows == 2
MaxCalls == 4
MaxExchanges == 2
MaxQueryRows == 3

-----------------------------------------------------------------------------
(* Optional values.                                                        *)

None == <<>>
Some(x) == <<x>>
IsNone(o) == o = <<>>
Get(o) == o[1]

Range(s) == {s[i] : i \in 1..Len(s)}

RECURSIVE SumSeq(_)
SumSeq(s) == IF s = <<>> THEN 0 ELSE Head(s) + SumSeq(Tail(s))

(* Sequences of length 0..n over S whose i-th element gets id i: a sheet  *)
(* of rows, each row carrying its own id_redesignacion.                    *)
Rows(S, n) ==
    UNION {[1..k -> S] : k \in 0..n}

WithIds(rows) == [i \in 1..Len(rows) |-> [rows[i] EXCEPT !.id = i]]

(* Huayca rows carry their own id_materia, here the row number.            *)
WithMateriaIds(rows) ==
    [i \in 1..Len(rows) |-> [rows[i] EXCEPT !.id = i, !.id_materia = i]]

-----------------------------------------------------------------------------
(* Raw rows of the three remote tables, reduced to the fields the          *)
(* aggregation reads, and the bounded sets the remote tables are drawn     *)
(* from. wellformed says whether the row has every field the typed model   *)
(* built from it requires.                                                 *)

Threads == {"t1", "t2"}

Assignment(cod, per, rol, desig) ==
    [id |-> 0, cod |-> cod, per |-> per, rol |-> rol, desig |-> desig,
     legajo |-> "L1", materia |-> "Algebra", carrera |-> "LMAT"]

Designacion(d_desig, wellformed) ==
    [id |-> 0, d_desig |-> d_desig, wellformed |-> wellformed,
     apellido_y_nombre |-> "PEREZ, ANA", correos |-> "", departamento |-> "",
     legajo |-> "L1"]

HuaycaMateria(cod_guarani, wellformed) ==
    [id |-> 0, id_materia |-> 0, cod_guarani |-> cod_guarani,
     depto |-> "MATEMATICA", wellformed |-> wellformed]

(* Rows that exercise the grouping: empty, valid and invalid key parts and *)
(* roles.                                                                  *)
GroupingAssignments ==
    {Assignment(cod, per, rol, "D1") :
        cod \in {"", "101", "102"},
        per \in {"", "1CUAT", "2CUAT", "3CUAT"},
        rol \in {"Resp", "Otro"}}

(* Rows that exercise the designation join.                                *)
FacultyAssignments ==
    {Assignment("101", "1CUAT", "Resp", desig) : desig \in {"", "D1", "D2"}}

FacultyDesignaciones ==
    {Designacion(d_desig, wellformed) :
        d_desig \in {"", "D1", "D2"}, wellformed \in BOOLEAN}

(* Rows that exercise the detail join.                                     *)
HuaycaAssignments ==
    {Assignment(cod, per, "Resp", "D1") :
        cod \in {"101", "102"}, per \in {"1CUAT", "2CUAT"}}

HuaycaMateriasRows ==
    {HuaycaMateria(cod_guarani, wellformed) :
        cod_guarani \in {"", "101", "102"}, wellformed \in BOOLEAN}

(* Rows that exercise the grouping by person: blank and padded names,      *)
(* emails of different lengths.                                            *)
DocenteDesignaciones ==
    {[Designacion(d_desig, TRUE) EXCEPT !.apellido_y_nombre = nombre,
                                        !.correos = correos] :
        d_desig \in {"D1", "D2"},
        nombre \in {" ", "PEREZ", " PEREZ", "ALBA"},
        correos \in {"", "a@x.ar"}}

(* Rows that exercise the grouping by department: missing, blank and       *)
(* padded departments, designation numbers whose text and numeric orders   *)
(* differ.                                                                 *)
DepartamentoDesignaciones ==
    {[Designacion(d_desig, TRUE) EXCEPT !.departamento = departamento] :
        d_desig \in {"D1", "D2", "D10"},
        departamento \in {"", " ", "MATEMATICA", "MATEMATICA ", "FISICA"}}

Sheets(S) == {WithIds(r) : r \in Rows(S, MaxRows)}

(* Rows behind the HTTP routes: a name that contains "flat", one that does *)
(* not, a blank one.                                                       *)
AppDesignaciones ==
    {[Designacion(d_desig, TRUE) EXCEPT !.apellido_y_nombre = nombre] :
        d_desig \in {"D1", "D2"}, nombre \in {"PEREZ", "FLATTE", " "}}

(* The course assignments the person and department groupings run over.    *)
DocenteMaterias ==
    {WithIds(<<>>),
     WithIds(<<Assignment("101", "1CUAT", "Resp", "D1"),
               Assignment("102", "1CUAT", "Aux", "D1"),
               Assignment("102", "2CUAT", "Resp", "D2")>>)}

(* Rows behind the summary and the lookups: two people, two careers, a     *)
(* period outside the enumeration; Huayca rows with and without a          *)
(* department.                                                             *)
QueryAssignments ==
    {[Assignment("101", "1CUAT", "Resp", "D1") EXCEPT !.legajo = "L1"],
     [Assignment("101", "1CUAT", "Aux", "D1") EXCEPT !.legajo = "L2"],
     [Assignment("101", "2CUAT", "Resp", "D1") EXCEPT !.legajo = "L1"],
     [Assignment("102", "1CUAT", "Resp", "D1") EXCEPT !.legajo = "L1", !.carrera = "LFIS"],
     [Assignment("102", "3CUAT", "Resp", "D1") EXCEPT !.legajo = "L2", !.carrera = "LFIS"]}

QueryHuaycaVersions ==
    {WithMateriaIds(<<>>),
     WithMateriaIds(<<HuaycaMateria("101", TRUE)>>),
     WithMateriaIds(<<[HuaycaMateria("101", TRUE) EXCEPT !.depto = ""]>>),
     WithMateriaIds(<<[HuaycaMateria("101", TRUE) EXCEPT !.depto = ""],
                      [HuaycaMateria("102", TRUE) EXCEPT !.depto = "FISICA"]>>),
     WithMateriaIds(<<HuaycaMateria("101", TRUE),
                      [HuaycaMateria("102", TRUE) EXCEPT !.depto = "FISICA"]>>)}

(* The contents the remote Huayca table moves between: empty, one row,    *)
(* two rows.                                                               *)
HuaycaVersions ==
    {WithMateriaIds(<<>>),
     WithMateriaIds(<<HuaycaMateria("101", TRUE)>>),
     WithMateriaIds(<<HuaycaMateria("101", TRUE), HuaycaMateria("102", TRUE)>>)}

-----------------------------------------------------------------------------
(* Enumerations of models/core.py.                                         *)

AcademicPeriod == {"1CUAT", "2CUAT", "ANUAL", "2BIMES2C", "MENSU"}
FacultyRole == {"Resp", "Aux"}

(* A TeamMember model whose rol field were a plain string: the role is no  *)
(* longer validated.                                                       *)
TeamMemberValidNoRole(assignment) == assignment.per \in AcademicPeriod

(* TeamMember built from an assignment: pydantic validation. The enum       *)
(* fields rol and periodo must carry a member value; every other field of  *)
(* the modelled records is a well-typed string.                            *)
TeamMemberValid(assignment) ==
    /\ assignment.rol \in FacultyRole
    /\ assignment.per \in AcademicPeriod

TeamMember(assignment) ==
    [id |-> assignment.id,
     cod_siu |-> assignment.cod,
     periodo |-> assignment.per,
     rol |-> assignment.rol,
     desig |-> assignment.desig,
     legajo |-> assignment.legajo,
     personal_details |-> None]

(* Course(cod_siu=..., periodo=AcademicPeriod(periodo) if periodo in       *)
(* AcademicPeriod.__members__.values() else periodo, ...): the raw string  *)
(* is handed to the model when it is no member value, and pydantic then    *)
(* rejects it: the constructor raises.                                     *)
CourseValid(periodo) == periodo \in AcademicPeriod

Course(cod_siu, periodo, first_assignment) ==
    [cod_siu |-> cod_siu,
     periodo |-> periodo,
     materia |-> first_assignment.materia,
     carrera |-> first_assignment.carrera,
     team_members |-> <<>>,
     huayca_details |-> None]

(* FacultyDetails and HuaycaCourseDetails built from a raw record:         *)
(* the raw record either has every required field well typed or the       *)
(* constructor raises (and the caller catches).                            *)
FacultyDetailsValid(faculty_data) == faculty_data.wellformed
HuaycaCourseDetailsValid(huayca_data) == huayca_data.wellformed

-----------------------------------------------------------------------------
(* CourseTeamService._group_assignments_by_course: a dict keyed by         *)
(* (Cod SIU, Periodo), keys in first-insertion order, as a sequence of     *)
(* [key, assignments] entries.                                             *)

(* A grouping that puts a new key in front of the keys met so far.         *)
GroupAppendFront(course_groups, assignment) ==
    LET key == <<assignment.cod, assignment.per>> IN
    IF \E i \in 1..Len(course_groups) : course_groups[i].key = key
    THEN [i \in 1..Len(course_groups) |->
            IF course_groups[i].key = key
            THEN [course_groups[i] EXCEPT !.assignments = Append(@, assignment)]
            ELSE course_groups[i]]
    ELSE <<[key |-> key, assignments |-> <<assignment>>]>> \o course_groups

GroupAppend(course_groups, assignment) ==
    LET key == <<assignment.cod, assignment.per>> IN
    IF \E i \in 1..Len(course_groups) : course_groups[i].key = key
    THEN [i \in 1..Len(course_groups) |->
            IF course_groups[i].key = key
            THEN [course_groups[i] EXCEPT !.assignments = Append(@, assignment)]
            ELSE course_groups[i]]
    ELSE Append(course_groups, [key |-> key, assignments |-> <<assignment>>])

RECURSIVE GroupLoop(_, _)
GroupLoop(course_groups, rest) ==
    IF rest = <<>> THEN course_groups
    ELSE GroupLoop(GroupAppend(course_groups, Head(rest)), Tail(rest))

GroupAssignmentsByCourse(cache) == GroupLoop(<<>>, cache)

(* The inner loop of _build_course_objects: one TeamMember per assignment  *)
(* of the group, an assignment that fails validation is skipped.           *)
RECURSIVE TeamMembersOf(_)
TeamMembersOf(assignments) ==
    IF assignments = <<>> THEN <<>>
    ELSE IF TeamMemberValid(Head(assignments))
         THEN <<TeamMember(Head(assignments))>> \o TeamMembersOf(Tail(assignments))
         ELSE TeamMembersOf(Tail(assignments))

(* CourseTeamService._build_course_objects. The result is                 *)
(* [raised, courses]: the Course constructor is outside any try block, so  *)
(* its ValidationError ends the loop and the whole call.                   *)
RECURSIVE BuildLoop(_, _)
BuildLoop(courses, groups) ==
    IF groups = <<>> THEN [raised |-> FALSE, courses |-> courses]
    ELSE LET cod_siu == Head(groups).key[1]
             periodo == Head(groups).key[2]
             assignments == Head(groups).assignments
         IN  IF cod_siu = "" \/ periodo = ""
             THEN BuildLoop(courses, Tail(groups))
             ELSE IF ~CourseValid(periodo)
             THEN [raised |-> TRUE, courses |-> <<>>]
             ELSE BuildLoop(
                    Append(courses,
                           [Course(cod_siu, periodo, assignments[1])
                              EXCEPT !.team_members = TeamMembersOf(assignments)]),
                    Tail(groups))

BuildCourseObjects(course_groups) == BuildLoop(<<>>, course_groups)

-----------------------------------------------------------------------------
(* CourseTeamService._enrich_with_faculty_details.                         *)

FacultyDetails(faculty_data) ==
    [id_redesignacion |-> faculty_data.id, d_desig |-> faculty_data.d_desig]

(* A lookup that keeps the first record of a key (setdefault).             *)
FacultyLookupPutFirst(faculty_lookup, faculty_data) ==
    IF faculty_data.d_desig # "" /\ faculty_data.d_desig \notin DOMAIN faculty_lookup
    THEN [k \in DOMAIN faculty_lookup \cup {faculty_data.d_desig} |->
            IF k = faculty_data.d_desig THEN faculty_data ELSE faculty_lookup[k]]
    ELSE faculty_lookup

(* faculty_lookup[d_desig] = faculty_data, for every record in turn: a    *)
(* later record overwrites an earlier one with the same key; records with  *)
(* an empty key are left out. The dict is a function on its key set.       *)
FacultyLookupPut(faculty_lookup, faculty_data) ==
    IF faculty_data.d_desig # ""
    THEN [k \in DOMAIN faculty_lookup \cup {faculty_data.d_desig} |->
            IF k = faculty_data.d_desig THEN faculty_data ELSE faculty_lookup[k]]
    ELSE faculty_lookup

RECURSIVE FacultyLookupLoop(_, _)
FacultyLookupLoop(faculty_lookup, rest) ==
    IF rest = <<>> THEN faculty_lookup
    ELSE FacultyLookupLoop(FacultyLookupPut(faculty_lookup, Head(rest)), Tail(rest))

FacultyLookup(cache) == FacultyLookupLoop(<<>>, cache)

(* An enrichment that takes the details off a member who has some.         *)
EnrichMemberOnce(member, faculty_lookup) ==
    IF /\ member.desig \in DOMAIN faculty_lookup
       /\ FacultyDetailsValid(faculty_lookup[member.desig])
       /\ IsNone(member.personal_details)
    THEN [member EXCEPT
            !.personal_details = Some(FacultyDetails(faculty_lookup[member.desig]))]
    ELSE [member EXCEPT !.personal_details = None]

(* One team member: faculty_lookup.get(member.desig); on a hit the         *)
(* FacultyDetails are attached unless their construction raises, which is  *)
(* caught and leaves the member as it was.                                 *)
EnrichMember(member, faculty_lookup) ==
    IF /\ member.desig \in DOMAIN faculty_lookup
       /\ FacultyDetailsValid(faculty_lookup[member.desig])
    THEN [member EXCEPT
            !.personal_details = Some(FacultyDetails(faculty_lookup[member.desig]))]
    ELSE member

EnrichWithFacultyDetails(courses, cache) ==
    IF IsNone(cache) THEN courses
    ELSE LET faculty_lookup == FacultyLookup(Get(cache)) IN
         [c \in 1..Len(courses) |->
            LET members == courses[c].team_members IN
            [courses[c] EXCEPT !.team_members =
                [m \in 1..Len(members) |-> EnrichMember(members[m], faculty_lookup)]]]

-----------------------------------------------------------------------------
(* CourseTeamService._enrich_with_huayca_details.                          *)

HuaycaCourseDetails(huayca_data) ==
    [id_materia |-> huayca_data.id_materia,
     cod_guarani |-> huayca_data.cod_guarani,
     depto |-> huayca_data.depto]

(* A lookup that keeps the first record of a key (setdefault).             *)
HuaycaLookupPutFirst(huayca_lookup, course_data) ==
    IF course_data.cod_guarani # "" /\ course_data.cod_guarani \notin DOMAIN huayca_lookup
    THEN [k \in DOMAIN huayca_lookup \cup {course_data.cod_guarani} |->
            IF k = course_data.cod_guarani THEN course_data ELSE huayca_lookup[k]]
    ELSE huayca_lookup

(* huayca_lookup[cod_guarani] = course_data for every record in turn,      *)
(* records with an empty cod_guarani left out: last write wins.            *)
HuaycaLookupPut(huayca_lookup, course_data) ==
    IF course_data.cod_guarani # ""
    THEN [k \in DOMAIN huayca_lookup \cup {course_data.cod_guarani} |->
            IF k = course_data.cod_guarani THEN course_data ELSE huayca_lookup[k]]
    ELSE huayca_lookup

RECURSIVE HuaycaLookupLoop(_, _)
HuaycaLookupLoop(huayca_lookup, rest) ==
    IF rest = <<>> THEN huayca_lookup
    ELSE HuaycaLookupLoop(HuaycaLookupPut(huayca_lookup, Head(rest)), Tail(rest))

HuaycaLookup(cache) == HuaycaLookupLoop(<<>>, cache)

EnrichCourse(course, huayca_lookup) ==
    IF /\ course.cod_siu \in DOMAIN huayca_lookup
       /\ HuaycaCourseDetailsValid(huayca_lookup[course.cod_siu])
    THEN [course EXCEPT
            !.huayca_details = Some(HuaycaCourseDetails(huayca_lookup[course.cod_siu]))]
    ELSE course

EnrichWithHuaycaDetails(courses, cache) ==
    IF IsNone(cache) THEN courses
    ELSE LET huayca_lookup == HuaycaLookup(Get(cache)) IN
         [c \in 1..Len(courses) |-> EnrichCourse(courses[c], huayca_lookup)]

-----------------------------------------------------------------------------
(* CourseTeamService.detect_unique_courses as a function of the three      *)
(* caches: [outcome, error, courses].                                      *)

DetectUniqueCourses(m_cache, d_cache, h_cache) ==
    IF IsNone(m_cache)
    THEN [outcome |-> "raised", error |-> "ValueError", courses |-> <<>>]
    ELSE LET built == BuildCourseObjects(GroupAssignmentsByCourse(Get(m_cache))) IN
         IF built.raised
         THEN [outcome |-> "raised", error |-> "ValidationError", courses |-> <<>>]
         ELSE [outcome |-> "ok", error |-> "",
               courses |-> EnrichWithHuaycaDetails(
                               EnrichWithFacultyDetails(built.courses, d_cache),
                               h_cache)]

-----------------------------------------------------------------------------
(* Match rates of refresh_data. A rate is the exact fraction               *)
(* [num, den] = matched * 100 / total; 0.0 is [num |-> 0, den |-> 1].      *)

Digit(d) ==
    CASE d = 0 -> "0" [] d = 1 -> "1" [] d = 2 -> "2" [] d = 3 -> "3"
      [] d = 4 -> "4" [] d = 5 -> "5" [] d = 6 -> "6" [] d = 7 -> "7"
      [] d = 8 -> "8" [] d = 9 -> "9"

(* str(n) of a non-negative int. *)
RECURSIVE IntToStr(_)
IntToStr(n) == IF n < 10 THEN Digit(n) ELSE IntToStr(n \div 10) \o Digit(n % 10)

ZeroRate == [num |-> 0, den |-> 1]

(* A rate taken over the designation rows instead of the assignments.      *)
CalculateFacultyMatchRatePerDesignacion(m_cache, d_cache) ==
    IF m_cache = <<>> \/ d_cache = <<>> THEN ZeroRate
    ELSE LET available_desigs == {d_cache[i].d_desig : i \in 1..Len(d_cache)}
             matched_assignments ==
                 Cardinality({i \in 1..Len(m_cache) : m_cache[i].desig \in available_desigs})
         IN  [num |-> matched_assignments * 100, den |-> Len(d_cache)]

CalculateFacultyMatchRate(m_cache, d_cache) ==
    IF m_cache = <<>> \/ d_cache = <<>> THEN ZeroRate
    ELSE LET available_desigs == {d_cache[i].d_desig : i \in 1..Len(d_cache)}
             matched_assignments ==
                 Cardinality({i \in 1..Len(m_cache) : m_cache[i].desig \in available_desigs})
         IN  [num |-> matched_assignments * 100, den |-> Len(m_cache)]

CalculateHuaycaMatchRate(m_cache, h_cache) ==
    IF m_cache = <<>> \/ h_cache = <<>> THEN ZeroRate
    ELSE LET available_ids == {IntToStr(h_cache[i].id_materia) : i \in 1..Len(h_cache)}
             unique_codes == {m_cache[i].cod : i \in 1..Len(m_cache)}
             matched_codes == Cardinality({code \in unique_codes : code \in available_ids})
         IN  [num |-> matched_codes * 100, den |-> Cardinality(unique_codes)]

DataSourceStatus(m_cache, d_cache, h_cache) ==
    [materias_equipo_count |-> Len(m_cache),
     designaciones_docentes_count |-> Len(d_cache),
     huayca_materias_count |-> Len(h_cache),
     faculty_match_rate |-> CalculateFacultyMatchRate(m_cache, d_cache),
     huayca_match_rate |-> CalculateHuaycaMatchRate(m_cache, h_cache)]

-----------------------------------------------------------------------------
(* CourseTeamService: the calls.                                           *)

NoOp ==
    [op |-> "none", outcome |-> "none", error |-> "", courses |-> <<>>,
     status |-> None, fetches |-> <<>>, result |-> None]

RefreshRequests == <<"materias_equipo", "designaciones_docentes", "huayca_materias">>

(* The error a failed request raises: each client has one error class.    *)
ClientError(req) ==
    IF req = "huayca_materias" THEN "HuaycaAPIError" ELSE "GoogleSheetsAPIError"

(* A call that tries the failing request a second time before giving up.   *)
FetchesUntilRetry(requests, failAt) ==
    IF failAt = 0
    THEN [i \in 1..Len(requests) |-> [request |-> requests[i], ok |-> TRUE]]
    ELSE [i \in 1..(failAt + 1) |->
            [request |-> requests[IF i > failAt THEN failAt ELSE i],
             ok |-> i < failAt]]

(* The requests a call issues when its failAt-th fetch fails (0: none      *)
(* fails): every request up to the failing one, each once.                 *)
FetchesUntil(requests, failAt) ==
    [i \in 1..(IF failAt = 0 THEN Len(requests) ELSE failAt) |->
        [request |-> requests[i], ok |-> i # failAt]]

(* refresh_data(): the three fetches assign the three caches one after the *)
(* other; a fetch that raises ends the call (the except clause re-raises), *)
(* leaving the caches assigned so far. failAt names the failing fetch.      *)
refresh_data(failAt) ==
    /\ materias_equipo_cache' =
           IF failAt = 1 THEN materias_equipo_cache ELSE Some(sheetMaterias)
    /\ designaciones_cache' =
           IF failAt \in {1, 2} THEN designaciones_cache ELSE Some(sheetDesignaciones)
    /\ huayca_cache' =
           IF failAt # 0 THEN huayca_cache ELSE Some(huaycaMaterias)
    /\ lastOp' =
           IF failAt = 0
           THEN [NoOp EXCEPT !.op = "refresh_data", !.outcome = "ok",
                    !.status = Some(DataSourceStatus(sheetMaterias,
                                                     sheetDesignaciones,
                                                     huaycaMaterias)),
                    !.fetches = FetchesUntil(RefreshRequests, failAt)]
           ELSE [NoOp EXCEPT !.op = "refresh_data", !.outcome = "raised",
                    !.error = ClientError(RefreshRequests[failAt]),
                    !.fetches = FetchesUntil(RefreshRequests, failAt)]
    /\ UNCHANGED <<envVars, dsVars, clientVars, httpVars>>

(* detect_unique_courses(): computed afresh from the caches on every call; *)
(* the caches themselves are only read.                                    *)
detect_unique_courses ==
    /\ LET r == DetectUniqueCourses(materias_equipo_cache, designaciones_cache,
                                    huayca_cache)
       IN  lastOp' = [NoOp EXCEPT !.op = "detect_unique_courses",
                         !.outcome = r.outcome, !.error = r.error,
                         !.courses = r.courses]
    /\ UNCHANGED <<materias_equipo_cache, designaciones_cache, huayca_cache>>
    /\ UNCHANGED <<envVars, dsVars, clientVars, httpVars>>

(* The two enrichment passes run once more over the Course collection the  *)
(* last detect_unique_courses() returned, the caches being what they were. *)
enrich_again ==
    /\ lastOp.op \in {"detect_unique_courses", "enrich_again"}
    /\ lastOp.outcome = "ok"
    /\ lastOp' = [lastOp EXCEPT
                     !.op = "enrich_again",
                     !.courses = EnrichWithHuaycaDetails(
                                     EnrichWithFacultyDetails(lastOp.courses,
                                                              designaciones_cache),
                                     huayca_cache)]
    /\ UNCHANGED <<materias_equipo_cache, designaciones_cache, huayca_cache>>
    /\ UNCHANGED <<envVars, dsVars, clientVars, httpVars>>

-----------------------------------------------------------------------------
(* DesignacionesService: the pure part of get_designaciones_with_materias. *)

(* str.strip() on the strings of the model: the padded spellings lose      *)
(* their blanks, a blank string becomes empty, any other string is kept.   *)
Strip(str) ==
    CASE str = " " -> ""
      [] str = " 101" -> "101"
      [] str = "101 " -> "101"
      [] str = "D1 " -> "D1"
      [] str = " D1" -> "D1"
      [] str = " PEREZ" -> "PEREZ"
      [] str = "MATEMATICA " -> "MATEMATICA"
      [] OTHER -> str

(* _create_huayca_lookup: lookup[cod_guarani.strip()] = materia, in turn.  *)
CreateHuaycaLookupPut(lookup, materia) ==
    LET cod_guarani == Strip(materia.cod_guarani) IN
    IF cod_guarani # ""
    THEN [k \in DOMAIN lookup \cup {cod_guarani} |->
            IF k = cod_guarani THEN materia ELSE lookup[k]]
    ELSE lookup

RECURSIVE CreateHuaycaLookupLoop(_, _)
CreateHuaycaLookupLoop(lookup, rest) ==
    IF rest = <<>> THEN lookup
    ELSE CreateHuaycaLookupLoop(CreateHuaycaLookupPut(lookup, Head(rest)), Tail(rest))

CreateHuaycaLookup(huayca_data) == CreateHuaycaLookupLoop(<<>>, huayca_data)

HuaycaMateriaDetalle(huayca_record) ==
    [id_materia |-> huayca_record.id_materia,
     cod_guarani |-> huayca_record.cod_guarani,
     depto |-> huayca_record.depto]

ConvertMateriaRecord(record, huayca_lookup) ==
    LET cod_siu == Strip(record.cod) IN
    [id_redesignacion_materia |-> record.id,
     cod_siu |-> cod_siu,
     periodo |-> record.per,
     rol |-> record.rol,
     materia_detalle |->
         IF cod_siu # "" /\ cod_siu \in DOMAIN huayca_lookup
         THEN Some(HuaycaMateriaDetalle(huayca_lookup[cod_siu]))
         ELSE None]

ConvertDesignacionRecord(record) ==
    [id_redesignacion |-> record.id,
     d_desig |-> record.d_desig,
     apellido_y_nombre |-> record.apellido_y_nombre,
     correos |-> record.correos,
     departamento |-> record.departamento,
     legajo |-> record.legajo,
     materias |-> <<>>]

(* materias_by_desig: a defaultdict(list) keyed by Desig.strip(), records  *)
(* with an empty key left out.                                             *)
MateriasByDesigPut(materias_by_desig, materia_record, huayca_lookup) ==
    LET desig == Strip(materia_record.desig)
        converted_materia == ConvertMateriaRecord(materia_record, huayca_lookup)
    IN  IF desig # ""
        THEN [k \in DOMAIN materias_by_desig \cup {desig} |->
                IF k = desig
                THEN (IF k \in DOMAIN materias_by_desig
                      THEN Append(materias_by_desig[k], converted_materia)
                      ELSE <<converted_materia>>)
                ELSE materias_by_desig[k]]
        ELSE materias_by_desig

RECURSIVE MateriasByDesigLoop(_, _, _)
MateriasByDesigLoop(materias_by_desig, rest, huayca_lookup) ==
    IF rest = <<>> THEN materias_by_desig
    ELSE MateriasByDesigLoop(
             MateriasByDesigPut(materias_by_desig, Head(rest), huayca_lookup),
             Tail(rest), huayca_lookup)

(* The summary get_designaciones_with_materias builds from the three       *)
(* tables once they are fetched.                                           *)
DesignacionesSummary(designaciones_raw, materias_raw, huayca_data) ==
    LET huayca_lookup == CreateHuaycaLookup(huayca_data)
        materias_by_desig == MateriasByDesigLoop(<<>>, materias_raw, huayca_lookup)
        designaciones ==
            [i \in 1..Len(designaciones_raw) |->
                LET designacion == ConvertDesignacionRecord(designaciones_raw[i])
                    d_desig == Strip(designacion.d_desig)
                IN  IF d_desig \in DOMAIN materias_by_desig
                    THEN [designacion EXCEPT !.materias = materias_by_desig[d_desig]]
                    ELSE designacion]
    IN  [total_designaciones |-> Len(designaciones),
         total_docentes |-> Len(designaciones),
         total_materias_asignadas |->
             SumSeq([i \in 1..Len(designaciones) |-> Len(designaciones[i].materias)]),
         designaciones |-> designaciones]

-----------------------------------------------------------------------------
(* DesignacionesService: grouping by person and by department.             *)

(* The code points of the strings that are compared.                       *)
CodePoints(str) ==
    CASE str = "" -> <<>>
      [] str = " " -> <<32>>
      [] str = "PEREZ" -> <<80, 69, 82, 69, 90>>
      [] str = " PEREZ" -> <<32, 80, 69, 82, 69, 90>>
      [] str = "ALBA" -> <<65, 76, 66, 65>>
      [] str = "FLATTE" -> <<70, 76, 65, 84, 84, 69>>
      [] str = "flat" -> <<102, 108, 97, 116>>
      [] str = "PEREZ, ANA" -> <<80, 69, 82, 69, 90, 44, 32, 65, 78, 65>>
      [] str = "FISICA" -> <<70, 73, 83, 73, 67, 65>>
      [] str = "MATEMATICA" -> <<77, 65, 84, 69, 77, 65, 84, 73, 67, 65>>
      [] str = "MATEMATICA " -> <<77, 65, 84, 69, 77, 65, 84, 73, 67, 65, 32>>
      [] str = "SIN DEPARTAMENTO" ->
             <<83, 73, 78, 32, 68, 69, 80, 65, 82, 84, 65, 77, 69, 78, 84, 79>>
      [] str = "D1" -> <<68, 49>>
      [] str = "D2" -> <<68, 50>>
      [] str = "D10" -> <<68, 49, 48>>
      [] str = "LMAT" -> <<76, 77, 65, 84>>
      [] str = "lmat" -> <<108, 109, 97, 116>>
      [] str = "LFIS" -> <<76, 70, 73, 83>>
      [] str = "matematica" -> <<109, 97, 116, 101, 109, 97, 116, 105, 99, 97>>

(* Python's order on str: by code point, a proper prefix first.            *)
RECURSIVE LexLess(_, _)
LexLess(a, b) ==
    IF b = <<>> THEN FALSE
    ELSE IF a = <<>> THEN TRUE
    ELSE IF Head(a) # Head(b) THEN Head(a) < Head(b)
    ELSE LexLess(Tail(a), Tail(b))

StrLess(a, b) == LexLess(CodePoints(a), CodePoints(b))

(* docentes_map keeps the blank names too.                                 *)
DocentesMapPutBlank(docentes_map, designacion) ==
    LET docente_name == Strip(designacion.apellido_y_nombre) IN
    IF \E g \in 1..Len(docentes_map) : docentes_map[g].key = docente_name
    THEN [g \in 1..Len(docentes_map) |->
            IF docentes_map[g].key = docente_name
            THEN [docentes_map[g] EXCEPT
                     !.designaciones = Append(@, designacion)]
            ELSE docentes_map[g]]
    ELSE Append(docentes_map,
                [key |-> docente_name, designaciones |-> <<designacion>>])

(* docentes_map[apellido_y_nombre.strip()].append(designacion), names that *)
(* are empty after strip() left out; the dict keeps first-insertion order. *)
DocentesMapPut(docentes_map, designacion) ==
    LET docente_name == Strip(designacion.apellido_y_nombre) IN
    IF docente_name = "" THEN docentes_map
    ELSE IF \E g \in 1..Len(docentes_map) : docentes_map[g].key = docente_name
    THEN [g \in 1..Len(docentes_map) |->
            IF docentes_map[g].key = docente_name
            THEN [docentes_map[g] EXCEPT
                     !.designaciones = Append(@, designacion)]
            ELSE docentes_map[g]]
    ELSE Append(docentes_map,
                [key |-> docente_name, designaciones |-> <<designacion>>])

RECURSIVE DocentesMapLoop(_, _)
DocentesMapLoop(docentes_map, rest) ==
    IF rest = <<>> THEN docentes_map
    ELSE DocentesMapLoop(DocentesMapPut(docentes_map, Head(rest)), Tail(rest))

(* The first designation of the list, whatever its emails.                 *)
PrimaryDesignationFirst(designaciones_list) == designaciones_list[1]

(* max(designaciones_list, key=lambda d: len(d.get('correos', ''))): the   *)
(* first designation among those with the longest emails field.            *)
PrimaryDesignation(designaciones_list) ==
    LET longest(i) == \A j \in 1..Len(designaciones_list) :
                          Len(designaciones_list[j].correos)
                              <= Len(designaciones_list[i].correos)
        first == CHOOSE i \in 1..Len(designaciones_list) :
                     /\ longest(i)
                     /\ \A j \in 1..(i - 1) : ~longest(j)
    IN  designaciones_list[first]

DocenteProfile(designaciones_list) ==
    LET primary_designation == PrimaryDesignation(designaciones_list) IN
    [apellido_y_nombre |-> primary_designation.apellido_y_nombre,
     legajo |-> primary_designation.legajo,
     correos |-> primary_designation.correos,
     total_designaciones |-> Len(designaciones_list),
     total_materias |->
         SumSeq([i \in 1..Len(designaciones_list) |->
                    Len(designaciones_list[i].materias)]),
     designaciones |-> designaciones_list]

(* The profiles left in the order the names first appeared.                *)
SortDocentesUnsorted(docentes) == docentes

(* docentes.sort(key=lambda d: d['apellido_y_nombre']): a stable sort,     *)
(* here by insertion after every profile that is not greater.              *)
RECURSIVE SortDocentes(_)
SortDocentes(docentes) ==
    IF docentes = <<>> THEN <<>>
    ELSE LET n == Len(docentes)
             sorted == SortDocentes(SubSeq(docentes, 1, n - 1))
             last == docentes[n]
             before == {i \in 1..Len(sorted) :
                           ~StrLess(last.apellido_y_nombre,
                                    sorted[i].apellido_y_nombre)}
             k == Cardinality(before)
         IN  SubSeq(sorted, 1, k) \o <<last>> \o SubSeq(sorted, k + 1, Len(sorted))

(* What get_docentes_with_designaciones builds from the flat summary.      *)
DocentesSummary(all_designaciones) ==
    LET docentes_map == DocentesMapLoop(<<>>, all_designaciones.designaciones)
        docentes == SortDocentes(
                        [g \in 1..Len(docentes_map) |->
                            DocenteProfile(docentes_map[g].designaciones)])
    IN  [total_docentes |-> Len(docentes),
         total_designaciones |-> all_designaciones.total_designaciones,
         total_materias_asignadas |->
             SumSeq([i \in 1..Len(docentes) |-> docentes[i].total_materias]),
         docentes |-> docentes]

(* by_department keeps the department as it is after strip(), the empty    *)
(* one too.                                                                *)
ByDepartmentPutNoSentinel(by_department, designacion) ==
    LET dept == Strip(designacion.departamento) IN
    IF \E g \in 1..Len(by_department) : by_department[g].key = dept
    THEN [g \in 1..Len(by_department) |->
            IF by_department[g].key = dept
            THEN [by_department[g] EXCEPT !.designaciones = Append(@, designacion)]
            ELSE by_department[g]]
    ELSE Append(by_department, [key |-> dept, designaciones |-> <<designacion>>])

(* by_department[dept].append(designacion), dept being the department      *)
(* after strip(), or 'SIN DEPARTAMENTO' when that is empty.                *)
ByDepartmentPut(by_department, designacion) ==
    LET stripped == Strip(designacion.departamento)
        dept == IF stripped = "" THEN "SIN DEPARTAMENTO" ELSE stripped
    IN  IF \E g \in 1..Len(by_department) : by_department[g].key = dept
        THEN [g \in 1..Len(by_department) |->
                IF by_department[g].key = dept
                THEN [by_department[g] EXCEPT
                         !.designaciones = Append(@, designacion)]
                ELSE by_department[g]]
        ELSE Append(by_department,
                    [key |-> dept, designaciones |-> <<designacion>>])

RECURSIVE ByDepartmentLoop(_, _)
ByDepartmentLoop(by_department, rest) ==
    IF rest = <<>> THEN by_department
    ELSE ByDepartmentLoop(ByDepartmentPut(by_department, Head(rest)), Tail(rest))

(* The designations of a department left in source order.                  *)
SortByDesigUnsorted(designaciones) == designaciones

(* by_department[dept].sort(key=lambda d: d.get('d_desig', '')): a stable  *)
(* sort on the designation number as a string.                             *)
RECURSIVE SortByDesig(_)
SortByDesig(designaciones) ==
    IF designaciones = <<>> THEN <<>>
    ELSE LET n == Len(designaciones)
             sorted == SortByDesig(SubSeq(designaciones, 1, n - 1))
             last == designaciones[n]
             before == {i \in 1..Len(sorted) :
                           ~StrLess(last.d_desig, sorted[i].d_desig)}
             k == Cardinality(before)
         IN  SubSeq(sorted, 1, k) \o <<last>> \o SubSeq(sorted, k + 1, Len(sorted))

(* dict(sorted(by_department.items())): the groups in ascending order of   *)
(* their keys, which are distinct.                                         *)
RECURSIVE SortDepartments(_)
SortDepartments(groups) ==
    IF groups = <<>> THEN <<>>
    ELSE LET n == Len(groups)
             sorted == SortDepartments(SubSeq(groups, 1, n - 1))
             last == groups[n]
             before == {i \in 1..Len(sorted) : ~StrLess(last.key, sorted[i].key)}
             k == Cardinality(before)
         IN  SubSeq(sorted, 1, k) \o <<last>> \o SubSeq(sorted, k + 1, Len(sorted))

(* What get_designaciones_by_departamento builds from the flat summary.    *)
ByDepartamento(all_designaciones) ==
    LET by_department == ByDepartmentLoop(<<>>, all_designaciones.designaciones)
    IN  SortDepartments(
            [g \in 1..Len(by_department) |->
                [by_department[g] EXCEPT !.designaciones = SortByDesig(@)]])

-----------------------------------------------------------------------------
(* DesignacionesService: the Huayca memo cache.                            *)

NoDsOp ==
    [op |-> "none", outcome |-> "none", error |-> "", summary |-> None,
     fetches |-> <<>>, cached |-> FALSE]

(* Nothing predates a clear_cache(): the value before any clear, and for   *)
(* the parts that are not in use (an idle thread, an unset cache).         *)
AllSinceClear ==
    [cache |-> TRUE,
     call |-> [t \in Threads |-> TRUE],
     fetch |-> [t \in Threads |-> TRUE]]

(* A cache test by truth value: an empty list counts as "not cached".      *)
CacheMissFalsy(cache) == IsNone(cache) \/ Get(cache) = <<>>

(* A cache test that never finds anything cached.                          *)
CacheMissAlways(cache) == TRUE

(* if self._huayca_cache is None *)
CacheMiss(cache) == IsNone(cache)

(* A store that keeps a value another request cached meanwhile.            *)
StoredValueIfUnset(cache, data) == IF IsNone(cache) THEN data ELSE Get(cache)

(* self._huayca_cache = self.huayca_client.get_all_materias(): the fetched *)
(* list replaces whatever the cache holds.                                 *)
StoredValue(cache, data) == data

(* _get_huayca_data(), one step per read or write of the shared cache, so  *)
(* that requests can interleave. The call starts with the test of the      *)
(* cache.                                                                  *)
GetCheck(t) ==
    /\ pc[t] = "idle"
    /\ Len(callLog) < MaxCalls
    /\ pc' = [pc EXCEPT ![t] = IF CacheMiss(ds_huayca_cache) THEN "fetch" ELSE "return"]
    /\ UNCHANGED <<ds_huayca_cache, fetched, callLog, fetchLog, sinceClear, dsLastOp>>
    /\ UNCHANGED <<envVars, ctsVars, clientVars, httpVars>>

(* huayca_client.get_all_materias() returns the remote table as it is now. *)
GetFetch(t) ==
    /\ pc[t] = "fetch"
    /\ fetched' = [fetched EXCEPT ![t] = Some(huaycaMaterias)]
    /\ fetchLog' = Append(fetchLog, huaycaMaterias)
    /\ pc' = [pc EXCEPT ![t] = "store"]
    /\ UNCHANGED <<ds_huayca_cache, callLog, sinceClear, dsLastOp>>
    /\ UNCHANGED <<envVars, ctsVars, clientVars, httpVars>>

GetStore(t) ==
    /\ pc[t] = "store"
    /\ ds_huayca_cache' = Some(StoredValue(ds_huayca_cache, Get(fetched[t])))
    /\ pc' = [pc EXCEPT ![t] = "log"]
    /\ sinceClear' = [sinceClear EXCEPT !.cache = sinceClear.fetch[t], !.fetch[t] = TRUE]
    /\ UNCHANGED <<fetched, callLog, fetchLog, dsLastOp>>
    /\ UNCHANGED <<envVars, ctsVars, clientVars, httpVars>>

(* logger.info(f"Cached {len(self._huayca_cache)} ..."): len() of the      *)
(* cache as it is now; a cache cleared meanwhile is None and len raises.   *)
GetLog(t) ==
    /\ pc[t] = "log"
    /\ IF IsNone(ds_huayca_cache)
       THEN /\ pc' = [pc EXCEPT ![t] = "idle"]
            /\ fetched' = [fetched EXCEPT ![t] = None]
            /\ callLog' = Append(callLog, [op |-> "get", outcome |-> "raised",
                                           fetched |-> TRUE, result |-> None])
            /\ sinceClear' = [sinceClear EXCEPT !.call[t] = TRUE]
       ELSE /\ pc' = [pc EXCEPT ![t] = "return"]
            /\ UNCHANGED <<fetched, callLog, sinceClear>>
    /\ UNCHANGED <<ds_huayca_cache, fetchLog, dsLastOp>>
    /\ UNCHANGED <<envVars, ctsVars, clientVars, httpVars>>

(* return self._huayca_cache: the cache as it is now. *)
GetReturn(t) ==
    /\ pc[t] = "return"
    /\ pc' = [pc EXCEPT ![t] = "idle"]
    /\ fetched' = [fetched EXCEPT ![t] = None]
    /\ callLog' = Append(callLog, [op |-> "get", outcome |-> "ok",
                                   fetched |-> ~IsNone(fetched[t]),
                                   result |-> ds_huayca_cache])
    /\ sinceClear' = [sinceClear EXCEPT !.call[t] = TRUE]
    /\ UNCHANGED <<ds_huayca_cache, fetchLog, dsLastOp>>
    /\ UNCHANGED <<envVars, ctsVars, clientVars, httpVars>>

(* clear_cache(): one assignment. *)
clear_cache(t) ==
    /\ pc[t] = "idle"
    /\ Len(callLog) < MaxCalls
    /\ ds_huayca_cache' = None
    /\ callLog' = Append(callLog, [op |-> "clear", outcome |-> "ok",
                                   fetched |-> FALSE, result |-> None])
    /\ sinceClear' = [cache |-> TRUE,
                      call |-> [u \in Threads |-> pc[u] = "idle"],
                      fetch |-> [u \in Threads |-> pc[u] # "store"]]
    /\ UNCHANGED <<pc, fetched, fetchLog, dsLastOp>>
    /\ UNCHANGED <<envVars, ctsVars, clientVars, httpVars>>

(* A call that asks Huayca every time, cached or not.                      *)
SummaryRequestsUncached(miss) ==
    <<"designaciones_docentes", "materias_equipo", "huayca_materias">>

(* The requests of get_designaciones_with_materias(): the two sheets, then *)
(* the Huayca table when _get_huayca_data() finds nothing cached.          *)
SummaryRequests(miss) ==
    IF miss
    THEN <<"designaciones_docentes", "materias_equipo", "huayca_materias">>
    ELSE <<"designaciones_docentes", "materias_equipo">>

(* The flat summary a call builds when its fetches succeed: from the two   *)
(* sheets as they are and the Huayca table, cached or just fetched.        *)
FetchedSummary ==
    DesignacionesSummary(sheetDesignaciones, sheetMaterias,
                         IF CacheMiss(ds_huayca_cache)
                         THEN StoredValue(ds_huayca_cache, huaycaMaterias)
                         ELSE Get(ds_huayca_cache))

(* The aggregations of DesignacionesService all start from                 *)
(* get_designaciones_with_materias(), one request at a time: the two      *)
(* sheets are fetched, then the Huayca table unless it is cached; a fetch  *)
(* that raises ends the call, nothing catches it. failAt names the failing *)
(* fetch (0: none); built is what the method makes of the flat summary.   *)
DsCall(op, failAt, built) ==
    LET miss == CacheMiss(ds_huayca_cache)
        requests == SummaryRequests(miss)
    IN  /\ \A t \in Threads : pc[t] = "idle"
        /\ failAt \in 0..Len(requests)
        /\ ds_huayca_cache' =
               IF failAt = 0 /\ miss
               THEN Some(StoredValue(ds_huayca_cache, huaycaMaterias))
               ELSE ds_huayca_cache
        /\ fetchLog' =
               IF failAt = 0 /\ miss THEN Append(fetchLog, huaycaMaterias) ELSE fetchLog
        /\ dsLastOp' =
               IF failAt = 0
               THEN [NoDsOp EXCEPT !.op = op,
                        !.outcome = "ok",
                        !.cached = ~miss,
                        !.summary = Some(built),
                        !.fetches = FetchesUntil(requests, failAt)]
               ELSE [NoDsOp EXCEPT !.op = op,
                        !.outcome = "raised",
                        !.cached = ~miss,
                        !.error = ClientError(requests[failAt]),
                        !.fetches = FetchesUntil(requests, failAt)]
        /\ sinceClear' =
               IF failAt = 0 /\ miss THEN [sinceClear EXCEPT !.cache = TRUE] ELSE sinceClear
        /\ UNCHANGED <<pc, fetched, callLog>>
        /\ UNCHANGED <<envVars, ctsVars, clientVars>>

(* A service method called on its own, outside any HTTP handler.           *)
DsAggregate(op, failAt, built) ==
    /\ DsCall(op, failAt, built)
    /\ UNCHANGED httpVars

get_designaciones_with_materias(failAt) ==
    DsAggregate("get_designaciones_with_materias", failAt, FetchedSummary)

(* get_docentes_with_designaciones(): the flat summary, fetched as above,  *)
(* then grouped by person.                                                 *)
get_docentes_with_designaciones(failAt) ==
    DsAggregate("get_docentes_with_designaciones", failAt,
                DocentesSummary(FetchedSummary))

(* get_designaciones_by_departamento(): the flat summary, fetched as       *)
(* above, then grouped by department.                                      *)
get_designaciones_by_departamento(failAt) ==
    DsAggregate("get_designaciones_by_departamento", failAt,
                ByDepartamento(FetchedSummary))

-----------------------------------------------------------------------------
(* The HTTP routes of the redesignaciones app under /designaciones.        *)

(* str.lower() on code points: A..Z become a..z.                           *)
Lower(codes) ==
    [i \in DOMAIN codes |->
        IF codes[i] >= 65 /\ codes[i] <= 90 THEN codes[i] + 32 ELSE codes[i]]

(* a in b, for strings as code points.                                     *)
IsSubstring(a, b) ==
    \E k \in 0..Len(b) :
        k + Len(a) <= Len(b) /\ SubSeq(b, k + 1, k + Len(a)) = a

(* docente_name.lower() in apellido_y_nombre.lower()                       *)
NameContains(docente_name, apellido_y_nombre) ==
    IsSubstring(Lower(CodePoints(docente_name)), Lower(CodePoints(apellido_y_nombre)))

(* get_docente_by_name: the first profile whose name contains the text.    *)
GetDocenteByName(docente_name, all_docentes) ==
    LET hits == {i \in 1..Len(all_docentes.docentes) :
                    NameContains(docente_name,
                                 all_docentes.docentes[i].apellido_y_nombre)}
    IN  IF hits = {} THEN None
        ELSE Some(all_docentes.docentes[CHOOSE i \in hits : \A j \in hits : i <= j])

(* get_designacion_by_desig: the first designation with that number.       *)
GetDesignacionByDesig(d_desig, all_designaciones) ==
    LET hits == {i \in 1..Len(all_designaciones.designaciones) :
                    all_designaciones.designaciones[i].d_desig = d_desig}
    IN  IF hits = {} THEN None
        ELSE Some(all_designaciones.designaciones[
                      CHOOSE i \in hits : \A j \in hits : i <= j])

(* The GET routes under /designaciones, in the order their decorators      *)
(* register them; a path is a sequence of segments.                        *)
Routes ==
    <<[path |-> <<"designaciones">>, endpoint |-> "get_all_designaciones"],
      [path |-> <<"designaciones", "{docente_name}">>,
       endpoint |-> "get_designacion_by_docente"],
      [path |-> <<"designaciones", "flat">>,
       endpoint |-> "get_all_designaciones_flat"],
      [path |-> <<"designaciones", "by-desig", "{d_desig}">>,
       endpoint |-> "get_designacion_by_desig"]>>

IsPathParam(segment) == segment \in {"{docente_name}", "{d_desig}"}

(* A route matches a path of as many segments, each equal to the route's   *)
(* or standing for a path parameter.                                       *)
RouteMatches(route, path) ==
    /\ Len(route.path) = Len(path)
    /\ \A i \in 1..Len(path) : IsPathParam(route.path[i]) \/ route.path[i] = path[i]

(* The router tries the routes in registration order and takes the first   *)
(* that matches; 0 when none does.                                         *)
Dispatch(path) ==
    LET matching == {r \in 1..Len(Routes) : RouteMatches(Routes[r], path)}
    IN  IF matching = {} THEN 0
        ELSE CHOOSE r \in matching : \A q \in matching : r <= q

(* The paths requested.                                                    *)
Paths ==
    {<<"designaciones">>, <<"designaciones", "flat">>, <<"designaciones", "PEREZ">>,
     <<"designaciones", "by-desig", "D1">>, <<"cursos">>}

LookupEndpoints == {"get_designacion_by_docente", "get_designacion_by_desig"}

(* What a handler answers once its service call is over: 500 when the call *)
(* raised, 404 when a lookup found nothing, else 200 with the result.      *)
HandlerResponse(path, endpoint, call) ==
    IF call.outcome = "raised"
    THEN [path |-> path, endpoint |-> endpoint, status_code |-> 500, body |-> None]
    ELSE IF endpoint \in LookupEndpoints
    THEN IF IsNone(Get(call.summary))
         THEN [path |-> path, endpoint |-> endpoint, status_code |-> 404,
               body |-> None]
         ELSE [path |-> path, endpoint |-> endpoint, status_code |-> 200,
               body |-> Get(call.summary)]
    ELSE [path |-> path, endpoint |-> endpoint, status_code |-> 200,
          body |-> call.summary]

(* One GET request: the router picks the handler, the handler runs its     *)
(* service call to the end (it awaits nothing) and answers.                *)
http_get(path, failAt) ==
    LET r == Dispatch(path)
        endpoint == IF r = 0 THEN "none" ELSE Routes[r].endpoint
    IN  /\ \A t \in Threads : pc[t] = "idle"
        /\ IF r = 0
           THEN /\ failAt = 0
                /\ httpResponse' = Some([path |-> path, endpoint |-> endpoint,
                                         status_code |-> 404, body |-> None])
                /\ UNCHANGED <<envVars, ctsVars, dsVars, clientVars>>
           ELSE /\ CASE endpoint = "get_all_designaciones" ->
                          DsCall("get_docentes_with_designaciones", failAt,
                                 DocentesSummary(FetchedSummary))
                     [] endpoint = "get_designacion_by_docente" ->
                          DsCall("get_docente_by_name", failAt,
                                 GetDocenteByName(path[2],
                                                  DocentesSummary(FetchedSummary)))
                     [] endpoint = "get_all_designaciones_flat" ->
                          DsCall("get_designaciones_with_materias", failAt,
                                 FetchedSummary)
                     [] endpoint = "get_designacion_by_desig" ->
                          DsCall("get_designacion_by_desig", failAt,
                                 GetDesignacionByDesig(path[3], FetchedSummary))
                /\ httpResponse' = Some(HandlerResponse(path, endpoint, dsLastOp'))
        /\ UNCHANGED _service_instance

(* The remote Huayca table changes between requests.                       *)
huayca_changes ==
    /\ huaycaMaterias' \in HuaycaVersions \ {huaycaMaterias}
    /\ UNCHANGED <<sheetMaterias, sheetDesignaciones>>
    /\ UNCHANGED <<ctsVars, dsVars, clientVars, httpVars>>

-----------------------------------------------------------------------------
(* CourseTeamService: the queries over the detected courses.               *)

(* Course.department: the depto of the attached Huayca details, None when  *)
(* the course has none.                                                    *)
Department(course) ==
    IF IsNone(course.huayca_details) THEN None
    ELSE Some(Get(course.huayca_details).depto)

(* if course.department: neither None nor the empty string.                *)
HasDepartment(course) ==
    ~IsNone(Department(course)) /\ Get(Department(course)) # ""

(* A histogram that files a course without a department under "".          *)
CoursesByDepartmentAll(courses) ==
    LET deptOf(i) == IF IsNone(Department(courses[i])) THEN ""
                     ELSE Get(Department(courses[i])) IN
    [d \in {deptOf(i) : i \in 1..Len(courses)} |->
        Cardinality({i \in 1..Len(courses) : deptOf(i) = d})]

(* The defaultdict(int) histograms of generate_summary(), as functions     *)
(* from the keys met to their counts.                                      *)
CoursesByDepartment(courses) ==
    LET with == {i \in 1..Len(courses) : HasDepartment(courses[i])} IN
    [d \in {Get(Department(courses[i])) : i \in with} |->
        Cardinality({i \in with : Get(Department(courses[i])) = d})]

CoursesByPeriod(courses) ==
    [p \in {courses[i].periodo : i \in 1..Len(courses)} |->
        Cardinality({i \in 1..Len(courses) : courses[i].periodo = p})]

CoursesByCareer(courses) ==
    [c \in {courses[i].carrera : i \in 1..Len(courses)} |->
        Cardinality({i \in 1..Len(courses) : courses[i].carrera = c})]

(* The team members of all courses, as (course, member) positions.         *)
MemberPositions(courses) ==
    UNION {{<<c, m>> : m \in 1..Len(courses[c].team_members)} :
              c \in 1..Len(courses)}

(* A faculty count that takes every team member for a person of its own.   *)
UniqueFacultyPerMember(courses) == Cardinality(MemberPositions(courses))

(* len(unique_faculty): the distinct legajo among the team members.        *)
UniqueFaculty(courses) ==
    Cardinality({courses[cm[1]].team_members[cm[2]].legajo :
                    cm \in MemberPositions(courses)})

(* generate_summary() over the list detect_unique_courses() returned.      *)
GenerateSummary(courses) ==
    [total_courses |-> Len(courses),
     total_assignments |->
         SumSeq([i \in 1..Len(courses) |-> Len(courses[i].team_members)]),
     unique_faculty |-> UniqueFaculty(courses),
     courses_by_department |-> CoursesByDepartment(courses),
     courses_by_period |-> CoursesByPeriod(courses),
     courses_by_career |-> CoursesByCareer(courses),
     faculty_without_details |->
         Cardinality({cm \in MemberPositions(courses) :
             IsNone(courses[cm[1]].team_members[cm[2]].personal_details)}),
     courses_without_huayca_data |->
         Cardinality({i \in 1..Len(courses) : IsNone(courses[i].huayca_details)})]

(* The loop of get_course_by_code_and_period(): the first course with the  *)
(* code and the period, None when the loop ends without one.               *)
FirstCourse(courses, cod_siu, periodo) ==
    LET hits == {i \in 1..Len(courses) :
                    courses[i].cod_siu = cod_siu /\ courses[i].periodo = periodo} IN
    IF hits = {} THEN None
    ELSE Some(courses[CHOOSE i \in hits : \A j \in hits : i <= j])

(* str.upper() on code points: a..z become A..Z.                           *)
Upper(codes) ==
    [i \in DOMAIN codes |->
        IF codes[i] >= 97 /\ codes[i] <= 122 THEN codes[i] - 32 ELSE codes[i]]

(* SelectSeq with the filters of get_courses_by_career() and               *)
(* get_courses_by_department().                                            *)
CoursesOfCareer(courses, career) ==
    SelectSeq(courses,
              LAMBDA course : Upper(CodePoints(course.carrera)) = Upper(CodePoints(career)))

CoursesOfDepartment(courses, department) ==
    SelectSeq(courses,
              LAMBDA course :
                  /\ HasDepartment(course)
                  /\ Upper(CodePoints(Get(Department(course)))) =
                         Upper(CodePoints(department)))

(* A query: detect_unique_courses() first, whose exception passes through, *)
(* then the query's own computation on the returned list. The caches are   *)
(* only read.                                                              *)
CtsQuery(op, result) ==
    /\ LET r == DetectUniqueCourses(materias_equipo_cache, designaciones_cache,
                                    huayca_cache)
       IN  lastOp' = [NoOp EXCEPT !.op = op,
                         !.outcome = r.outcome, !.error = r.error,
                         !.courses = r.courses,
                         !.result = IF r.outcome = "ok" THEN Some(result) ELSE None]
    /\ UNCHANGED <<materias_equipo_cache, designaciones_cache, huayca_cache>>
    /\ UNCHANGED <<envVars, dsVars, clientVars, httpVars>>

(* The list the queries compute on.                                        *)
DetectedCourses ==
    DetectUniqueCourses(materias_equipo_cache, designaciones_cache, huayca_cache).courses

generate_summary ==
    CtsQuery("generate_summary", GenerateSummary(DetectedCourses))

get_course_by_code_and_period(cod_siu, periodo) ==
    CtsQuery("get_course_by_code_and_period",
             [cod_siu |-> cod_siu, periodo |-> periodo,
              course |-> FirstCourse(DetectedCourses, cod_siu, periodo)])

get_courses_by_career(career) ==
    CtsQuery("get_courses_by_career",
             [career |-> career, courses |-> CoursesOfCareer(DetectedCourses, career)])

get_courses_by_department(department) ==
    CtsQuery("get_courses_by_department",
             [department |-> department,
              courses |-> CoursesOfDepartment(DetectedCourses, department)])

-----------------------------------------------------------------------------
(* Initial states. The services start with every cache unset; the remote   *)
(* tables are drawn from bounded sets of rows.                             *)

InitCTS ==
    /\ materias_equipo_cache = None
    /\ designaciones_cache = None
    /\ huayca_cache = None
    /\ lastOp = NoOp

InitDS ==
    /\ ds_huayca_cache = None
    /\ pc = [t \in Threads |-> "idle"]
    /\ fetched = [t \in Threads |-> None]
    /\ callLog = <<>>
    /\ fetchLog = <<>>
    /\ sinceClear = AllSinceClear
    /\ dsLastOp = NoDsOp

InitClient == exchanges = <<>>

InitApp ==
    /\ httpResponse = None
    /\ _service_instance = None

InitEnvGrouping ==
    /\ sheetMaterias \in Sheets(GroupingAssignments)
    /\ sheetDesignaciones = WithIds(<<Designacion("D1", TRUE)>>)
    /\ huaycaMaterias = WithMateriaIds(<<HuaycaMateria("101", TRUE)>>)

InitEnvFaculty ==
    /\ sheetMaterias \in Sheets(FacultyAssignments)
    /\ sheetDesignaciones \in Sheets(FacultyDesignaciones)
    /\ huaycaMaterias = WithMateriaIds(<<HuaycaMateria("101", TRUE)>>)

InitEnvHuayca ==
    /\ sheetMaterias \in Sheets(HuaycaAssignments)
    /\ sheetDesignaciones = WithIds(<<Designacion("D1", TRUE)>>)
    /\ huaycaMaterias \in {WithMateriaIds(r) : r \in Rows(HuaycaMateriasRows, MaxRows)}

InitCourses ==
    /\ InitEnvGrouping \/ InitEnvFaculty \/ InitEnvHuayca
    /\ InitCTS
    /\ InitDS
    /\ InitClient
    /\ InitApp

NextCourses ==
    \/ \E failAt \in 0..3 : refresh_data(failAt)
    \/ detect_unique_courses

SpecCourses == InitCourses /\ [][NextCourses]_vars

-----------------------------------------------------------------------------
(* Properties of course detection, checked under SpecCourses. They read    *)
(* the state right after a detect_unique_courses() call: the call leaves   *)
(* the caches alone, so materias_equipo_cache is still its input.          *)

DetectRan ==
    /\ lastOp.op = "detect_unique_courses"
    /\ ~IsNone(materias_equipo_cache)

DetectInput == Get(materias_equipo_cache)

KeyOf(assignment) == <<assignment.cod, assignment.per>>

NonEmptyKey(assignment) == assignment.cod # "" /\ assignment.per # ""

CourseKey(course) == <<course.cod_siu, course.periodo>>

(* The (course index, member index) positions at which the row with this   *)
(* id is a team member.                                                    *)
Positions(courses, id) ==
    {cm \in UNION {{<<c, m>> : m \in 1..Len(courses[c].team_members)} :
                      c \in 1..Len(courses)} :
        courses[cm[1]].team_members[cm[2]].id = id}

(* The team member at a position is the row itself: same id, key, role     *)
(* and designation number.                                                 *)
IsMemberOf(courses, cm, assignment) ==
    LET member == courses[cm[1]].team_members[cm[2]] IN
    /\ member.id = assignment.id
    /\ member.cod_siu = assignment.cod
    /\ member.periodo = assignment.per
    /\ member.rol = assignment.rol
    /\ member.desig = assignment.desig
    /\ CourseKey(courses[cm[1]]) = KeyOf(assignment)

(* C1: detect_unique_courses() returns, for every loaded assignment        *)
(* sequence, exactly one Course per distinct (Cod SIU, Periodo) pair with  *)
(* both parts non-empty, and no Course for any other pair.                 *)
C1_OneCoursePerPair ==
    DetectRan =>
        LET pairs == {KeyOf(DetectInput[i]) :
                          i \in {j \in 1..Len(DetectInput) : NonEmptyKey(DetectInput[j])}}
            courses == lastOp.courses
        IN  /\ lastOp.outcome = "ok"
            /\ \A p \in pairs :
                  Cardinality({c \in 1..Len(courses) : CourseKey(courses[c]) = p}) = 1
            /\ \A c \in 1..Len(courses) : CourseKey(courses[c]) \in pairs

C3_ValidationFailureIsolated ==
    DetectRan =>
        /\ lastOp.outcome = "ok"
        /\ \A i \in 1..Len(DetectInput) :
              LET pos == Positions(lastOp.courses, DetectInput[i].id) IN
              IF /\ DetectInput[i].cod # ""
                 /\ DetectInput[i].rol \in FacultyRole
                 /\ DetectInput[i].per \in AcademicPeriod
              THEN /\ pos # {}
                   /\ \A cm \in pos : IsMemberOf(lastOp.courses, cm, DetectInput[i])
              ELSE pos = {}

-----------------------------------------------------------------------------
(* Properties of the two enrichment passes, checked under SpecCourses.     *)

AllMembers(courses) ==
    UNION {{courses[c].team_members[m] : m \in 1..Len(courses[c].team_members)} :
              c \in 1..Len(courses)}

MaxOf(S) == CHOOSE x \in S : \A y \in S : y <= x

(* C6 as stated: every team member carries the last designation row whose  *)
(* D Desig equals its Desig, and nothing when no row has that number.      *)
C6_LastEqualDesignacionAttached ==
    (DetectRan /\ lastOp.outcome = "ok" /\ ~IsNone(designaciones_cache)) =>
        LET d == Get(designaciones_cache) IN
        \A member \in AllMembers(lastOp.courses) :
            LET matches == {i \in 1..Len(d) : d[i].d_desig = member.desig} IN
            IF matches # {}
            THEN /\ ~IsNone(member.personal_details)
                 /\ Get(member.personal_details).id_redesignacion = d[MaxOf(matches)].id
                 /\ Get(member.personal_details).d_desig = member.desig
            ELSE IsNone(member.personal_details)

(* C6 amended: every team member with a non-empty Desig carries the last   *)
(* designation row whose D Desig equals it, provided that row passes       *)
(* FacultyDetails validation; a member with an empty Desig, with a Desig   *)
(* no row has, or whose last matching row is malformed has                 *)
(* personal_details unset, and the call still returns.                     *)
C6_LastWellformedDesignacionAttached ==
    (DetectRan /\ lastOp.outcome = "ok" /\ ~IsNone(designaciones_cache)) =>
        LET d == Get(designaciones_cache) IN
        \A member \in AllMembers(lastOp.courses) :
            LET matches == {i \in 1..Len(d) :
                               d[i].d_desig = member.desig /\ member.desig # ""}
            IN
            IF matches # {} /\ d[MaxOf(matches)].wellformed
            THEN /\ ~IsNone(member.personal_details)
                 /\ Get(member.personal_details).id_redesignacion = d[MaxOf(matches)].id
                 /\ Get(member.personal_details).d_desig = member.desig
            ELSE IsNone(member.personal_details)

(* C6 witness: two designation rows share a number, a member with that     *)
(* number carries the later one, and another member matched no row.        *)
C6_Witness ==
    /\ DetectRan /\ lastOp.outcome = "ok" /\ ~IsNone(designaciones_cache)
    /\ LET d == Get(designaciones_cache) IN
       /\ Len(d) = 2 /\ d[1].d_desig = d[2].d_desig
       /\ \E member \in AllMembers(lastOp.courses) :
             /\ ~IsNone(member.personal_details)
             /\ Get(member.personal_details).id_redesignacion = d[2].id
       /\ \E member \in AllMembers(lastOp.courses) :
             /\ member.desig # "" /\ member.desig # d[1].d_desig
             /\ IsNone(member.personal_details)

(* C7 as stated: every course carries the last detail row whose            *)
(* cod_guarani equals its code (so courses sharing a code carry the same   *)
(* row), and nothing when no row has that code.                            *)
C7_LastEqualDetailAttached ==
    (DetectRan /\ lastOp.outcome = "ok" /\ ~IsNone(huayca_cache)) =>
        LET h == Get(huayca_cache) IN
        \A c \in 1..Len(lastOp.courses) :
            LET course == lastOp.courses[c]
                matches == {i \in 1..Len(h) : h[i].cod_guarani = course.cod_siu}
            IN
            IF matches # {}
            THEN /\ ~IsNone(course.huayca_details)
                 /\ Get(course.huayca_details).id_materia = h[MaxOf(matches)].id_materia
                 /\ Get(course.huayca_details).cod_guarani = course.cod_siu
            ELSE IsNone(course.huayca_details)

(* C7 amended: every course carries the last detail row whose cod_guarani  *)
(* equals its code, provided that row passes HuaycaCourseDetails           *)
(* validation; courses sharing a code carry the same row; a course whose   *)
(* code no row has, or whose last matching row is malformed, has           *)
(* huayca_details unset.                                                   *)
C7_LastWellformedDetailAttached ==
    (DetectRan /\ lastOp.outcome = "ok" /\ ~IsNone(huayca_cache)) =>
        LET h == Get(huayca_cache) IN
        /\ \A c \in 1..Len(lastOp.courses) :
              LET course == lastOp.courses[c]
                  matches == {i \in 1..Len(h) : h[i].cod_guarani = course.cod_siu}
              IN
              IF matches # {} /\ h[MaxOf(matches)].wellformed
              THEN /\ ~IsNone(course.huayca_details)
                   /\ Get(course.huayca_details).id_materia = h[MaxOf(matches)].id_materia
                   /\ Get(course.huayca_details).cod_guarani = course.cod_siu
              ELSE IsNone(course.huayca_details)
        /\ \A c1, c2 \in 1..Len(lastOp.courses) :
              lastOp.courses[c1].cod_siu = lastOp.courses[c2].cod_siu =>
                  lastOp.courses[c1].huayca_details = lastOp.courses[c2].huayca_details

(* C7 witness: two detail rows share a code, and two courses with that     *)
(* code in different periods both carry the later row.                     *)
C7_Witness ==
    /\ DetectRan /\ lastOp.outcome = "ok" /\ ~IsNone(huayca_cache)
    /\ LET h == Get(huayca_cache) IN
       /\ Len(h) = 2 /\ h[1].cod_guarani = h[2].cod_guarani
       /\ \E c1, c2 \in 1..Len(lastOp.courses) :
             /\ lastOp.courses[c1].periodo # lastOp.courses[c2].periodo
             /\ \A c \in {c1, c2} :
                   /\ ~IsNone(lastOp.courses[c].huayca_details)
                   /\ Get(lastOp.courses[c].huayca_details).id_materia = h[2].id_materia

(* The courses with the enrichment of an absent table taken off.           *)
WithoutEnrichment(courses, noFaculty, noHuayca) ==
    [c \in 1..Len(courses) |->
        [courses[c] EXCEPT
            !.huayca_details = IF noHuayca THEN None ELSE @,
            !.team_members =
                [m \in 1..Len(courses[c].team_members) |->
                    [courses[c].team_members[m] EXCEPT
                        !.personal_details = IF noFaculty THEN None ELSE @]]]]

(* C8: with the assignments loaded and the designations or the details     *)
(* absent, detect_unique_courses() returns, and returns the courses and    *)
(* team members it returns with all three tables present, less the         *)
(* enrichment of the absent table.                                         *)
C8_AbsentSecondaryTolerated ==
    (DetectRan /\ (IsNone(designaciones_cache) \/ IsNone(huayca_cache))) =>
        LET full == DetectUniqueCourses(materias_equipo_cache,
                                        Some(sheetDesignaciones),
                                        Some(huaycaMaterias))
        IN  /\ lastOp.outcome = "ok"
            /\ lastOp.courses =
                   WithoutEnrichment(full.courses, IsNone(designaciones_cache),
                                     IsNone(huayca_cache))

-----------------------------------------------------------------------------
(* The memo cache of DesignacionesService on its own: one request at a     *)
(* time (SpecCacheSeq), or two requests whose steps interleave             *)
(* (SpecCacheRace).                                                        *)

InitCache ==
    /\ sheetMaterias = <<>>
    /\ sheetDesignaciones = <<>>
    /\ huaycaMaterias \in HuaycaVersions
    /\ InitCTS
    /\ InitDS
    /\ InitClient
    /\ InitApp

NextCacheSeq ==
    \/ \E t \in {"t1"} :
          \/ GetCheck(t)
          \/ GetFetch(t)
          \/ GetStore(t)
          \/ GetLog(t)
          \/ GetReturn(t)
          \/ clear_cache(t)
    \/ huayca_changes

SpecCacheSeq == InitCache /\ [][NextCacheSeq]_vars

NextCacheRace ==
    \/ \E t \in Threads :
          \/ GetCheck(t)
          \/ GetFetch(t)
          \/ GetStore(t)
          \/ GetLog(t)
          \/ GetReturn(t)
          \/ clear_cache(t)
    \/ huayca_changes

SpecCacheRace == InitCache /\ [][NextCacheRace]_vars

(* The _get_huayca_data() calls of the log that fetched.                   *)
FetchingGets(log) == {i \in 1..Len(log) : log[i].op = "get" /\ log[i].fetched}

(* C4: with one call at a time and fetches that succeed, a                 *)
(* _get_huayca_data() call fetches exactly when no earlier call has run    *)
(* since the start or since the last clear_cache(); every other call       *)
(* returns what the call before it returned (the memoized list, empty or   *)
(* not), and there are as many fetches as fetching calls.                  *)
C4_FetchOnlyFirstAndAfterClear ==
    /\ \A i \in 1..Len(callLog) :
          callLog[i].op = "get" =>
              LET earlier == {j \in 1..(i - 1) :
                                 /\ callLog[j].op = "get"
                                 /\ \A k \in (j + 1)..(i - 1) : callLog[k].op # "clear"}
              IN  /\ callLog[i].outcome = "ok"
                  /\ ~IsNone(callLog[i].result)
                  /\ callLog[i].fetched <=> earlier = {}
                  /\ earlier # {} => callLog[i].result = callLog[MaxOf(earlier)].result
                  /\ callLog[i].fetched =>
                        callLog[i].result =
                            Some(fetchLog[Cardinality({j \in FetchingGets(callLog) : j <= i})])
    /\ pc["t1"] = "idle" => Len(fetchLog) = Cardinality(FetchingGets(callLog))

(* C4 witness: a fetching call that memoizes an empty list, a call served  *)
(* from that memo, a clear_cache(), and a call that fetches again.         *)
C4_Witness ==
    /\ Len(callLog) = 4
    /\ callLog[1].op = "get" /\ callLog[1].fetched /\ callLog[1].result = Some(<<>>)
    /\ callLog[2].op = "get" /\ ~callLog[2].fetched /\ callLog[2].result = Some(<<>>)
    /\ callLog[3].op = "clear"
    /\ callLog[4].op = "get" /\ callLog[4].fetched /\ callLog[4].result # Some(<<>>)

(* C5: the cache is written without synchronization: two interleaved       *)
(* _get_huayca_data() calls may both fetch, each store replaces the cache  *)
(* by the storing request's own fetch result (the last store wins), and    *)
(* the cache is always unset or the whole result of one fetch.             *)
C5_CacheIsUnsetOrOneWholeFetch ==
    /\ [](\/ IsNone(ds_huayca_cache)
          \/ \E k \in 1..Len(fetchLog) : Get(ds_huayca_cache) = fetchLog[k])
    /\ [][\A t \in Threads :
             (pc[t] = "store" /\ pc'[t] = "log") => ds_huayca_cache' = fetched[t]]_vars

(* C5 witness: both requests found the cache unset and fetched different   *)
(* tables, nothing was cleared, and the cache holds the older fetch: its   *)
(* store came last.                                                        *)
C5_Witness ==
    /\ callLog = <<>>
    /\ pc["t1"] = "log" /\ pc["t2"] = "log"
    /\ Len(fetchLog) = 2 /\ fetchLog[1] # fetchLog[2]
    /\ ds_huayca_cache = Some(fetchLog[1])

-----------------------------------------------------------------------------
(* The two aggregation operations and their fetches (SpecFetch): both      *)
(* services against the same remote tables, one call at a time.            *)

InitFetch ==
    /\ sheetMaterias \in Sheets({Assignment("101", "1CUAT", "Resp", "D1")})
    /\ sheetDesignaciones \in Sheets({Designacion("D1", TRUE)})
    /\ huaycaMaterias \in HuaycaVersions
    /\ InitCTS
    /\ InitDS
    /\ InitClient
    /\ InitApp

NextFetch ==
    \/ \E failAt \in 0..3 : refresh_data(failAt)
    \/ \E failAt \in 0..3 : get_designaciones_with_materias(failAt)
    \/ clear_cache("t1")

SpecFetch == InitFetch /\ [][NextFetch]_vars

(* What C9 asks of one operation's fetches: no request is issued twice, a  *)
(* failed request is the last one issued, the operation then raised that   *)
(* client's error and returned no result.                                  *)
AbortsOnFailure(op, resultAbsent) ==
    LET fetches == op.fetches
        failed == {i \in 1..Len(fetches) : ~fetches[i].ok}
    IN  /\ \A i, j \in 1..Len(fetches) :
              fetches[i].request = fetches[j].request => i = j
        /\ failed # {} =>
              /\ failed = {Len(fetches)}
              /\ op.outcome = "raised"
              /\ op.error = (IF fetches[Len(fetches)].request = "huayca_materias"
                             THEN "HuaycaAPIError" ELSE "GoogleSheetsAPIError")
              /\ resultAbsent

(* C9: a failed source fetch of refresh_data() or of                       *)
(* get_designaciones_with_materias() is attempted once, is the last        *)
(* request the operation issues, and makes the operation raise to its      *)
(* caller without returning any result.                                    *)
C9_FetchFailureAborts ==
    /\ lastOp.op = "refresh_data" =>
          AbortsOnFailure(lastOp, IsNone(lastOp.status) /\ lastOp.courses = <<>>)
    /\ dsLastOp.op = "get_designaciones_with_materias" =>
          AbortsOnFailure(dsLastOp, IsNone(dsLastOp.summary))

(* C9 witness: refresh_data() failed on its second fetch and               *)
(* get_designaciones_with_materias() on its Huayca fetch.                  *)
C9_Witness ==
    /\ lastOp.op = "refresh_data" /\ lastOp.outcome = "raised"
    /\ Len(lastOp.fetches) = 2 /\ ~lastOp.fetches[2].ok
    /\ dsLastOp.op = "get_designaciones_with_materias" /\ dsLastOp.outcome = "raised"
    /\ Len(dsLastOp.fetches) = 3 /\ ~dsLastOp.fetches[3].ok

-----------------------------------------------------------------------------
(* The source clients (SpecClients): one request, the HTTP response it     *)
(* meets, and what the client hands to its caller.                         *)

Bodies == {"list", "error_object", "sheets_object", "not_json"}

(* What session.get() can meet: no response at all, or a response with a   *)
(* status, a content-type header and a body.                               *)
Responses ==
    {[network |-> "failed", status |-> 0, content_type |-> "", body |-> "none"]}
    \cup [network : {"ok"}, status : {200, 500},
          content_type : {"application/json; charset=utf-8", "text/html"},
          body : Bodies]

Raised(type, message) ==
    [outcome |-> "raised", type |-> type, message |-> message, value |-> "none"]

Returned(value) ==
    [outcome |-> "returned", type |-> "", message |-> "", value |-> value]

(* response.raise_for_status(): an HTTPError for 4xx and 5xx.              *)
RaisesForStatus(status) == status >= 400 /\ status < 600

(* 'application/json' in content_type                                      *)
IsJsonContentType(content_type) ==
    content_type \in {"application/json", "application/json; charset=utf-8"}

(* response.json() raises on a body that is not JSON. The exception is a   *)
(* requests.RequestException in the requests releases that define          *)
(* requests.JSONDecodeError and a plain ValueError before; the installed    *)
(* release decides which except clause sees it.                            *)
JsonErrorMessage(jsonErrorIsRequestException) ==
    IF jsonErrorIsRequestException THEN "Request failed" ELSE "Invalid JSON response"

(* A Google Sheets client that trusts the content-type header.             *)
SheetsMakeRequestAnyContentType(response, jsonErrorIsRequestException) ==
    IF response.network = "failed" THEN Raised("GoogleSheetsAPIError", "Request failed")
    ELSE IF RaisesForStatus(response.status)
    THEN Raised("GoogleSheetsAPIError", "Request failed")
    ELSE IF response.body = "not_json"
    THEN Raised("GoogleSheetsAPIError", JsonErrorMessage(jsonErrorIsRequestException))
    ELSE IF response.body = "error_object"
    THEN Raised("GoogleSheetsAPIError", "API Error")
    ELSE Returned(response.body)

(* GoogleSheetsClient._make_request                                        *)
SheetsMakeRequest(response, jsonErrorIsRequestException) ==
    IF response.network = "failed" THEN Raised("GoogleSheetsAPIError", "Request failed")
    ELSE IF RaisesForStatus(response.status)
    THEN Raised("GoogleSheetsAPIError", "Request failed")
    ELSE IF ~IsJsonContentType(response.content_type)
    THEN Raised("GoogleSheetsAPIError", "Expected JSON response")
    ELSE IF response.body = "not_json"
    THEN Raised("GoogleSheetsAPIError", JsonErrorMessage(jsonErrorIsRequestException))
    ELSE IF response.body = "error_object"
    THEN Raised("GoogleSheetsAPIError", "API Error")
    ELSE Returned(response.body)

(* GoogleSheetsClient.get_available_sheets                                 *)
GetAvailableSheets(response, jsonErrorIsRequestException) ==
    LET data == SheetsMakeRequest(response, jsonErrorIsRequestException)
    IN  IF data.outcome = "raised" THEN data
        ELSE IF data.value = "sheets_object" THEN data
        ELSE Raised("GoogleSheetsAPIError", "Unexpected response format for getSheets")

(* GoogleSheetsClient.get_materias_equipo and get_designaciones_docentes   *)
GetSheet(response, jsonErrorIsRequestException) ==
    LET data == SheetsMakeRequest(response, jsonErrorIsRequestException)
    IN  IF data.outcome = "raised" THEN data
        ELSE IF data.value # "list"
        THEN Raised("GoogleSheetsAPIError", "Expected list response")
        ELSE data

(* HuaycaClient._make_request                                              *)
HuaycaMakeRequest(response, jsonErrorIsRequestException) ==
    IF response.network = "failed" THEN Raised("HuaycaAPIError", "Request failed")
    ELSE IF RaisesForStatus(response.status)
    THEN Raised("HuaycaAPIError", "Request failed")
    ELSE IF response.body = "not_json"
    THEN Raised("HuaycaAPIError", JsonErrorMessage(jsonErrorIsRequestException))
    ELSE IF response.body # "list"
    THEN Raised("HuaycaAPIError", "Expected list response")
    ELSE Returned(response.body)

SheetsCalls == {"get_available_sheets", "get_materias_equipo", "get_designaciones_docentes"}

(* One call of the Google Sheets client.                                   *)
sheets_call(call, response, jsonErrorIsRequestException) ==
    /\ Len(exchanges) < MaxExchanges
    /\ exchanges' = Append(exchanges,
          [client |-> "sheets", call |-> call, response |-> response,
           result |-> IF call = "get_available_sheets"
                      THEN GetAvailableSheets(response, jsonErrorIsRequestException)
                      ELSE GetSheet(response, jsonErrorIsRequestException)])
    /\ UNCHANGED <<envVars, ctsVars, dsVars, httpVars>>

(* HuaycaClient.get_all_materias                                           *)
huayca_call(response, jsonErrorIsRequestException) ==
    /\ Len(exchanges) < MaxExchanges
    /\ exchanges' = Append(exchanges,
          [client |-> "huayca", call |-> "get_all_materias", response |-> response,
           result |-> HuaycaMakeRequest(response, jsonErrorIsRequestException)])
    /\ UNCHANGED <<envVars, ctsVars, dsVars, httpVars>>

InitClients ==
    /\ sheetMaterias = <<>>
    /\ sheetDesignaciones = <<>>
    /\ huaycaMaterias = <<>>
    /\ InitCTS
    /\ InitDS
    /\ InitClient
    /\ InitApp

NextClients ==
    \/ \E call \in SheetsCalls, response \in Responses, b \in BOOLEAN :
          sheets_call(call, response, b)
    \/ \E response \in Responses, b \in BOOLEAN : huayca_call(response, b)

SpecClients == InitClients /\ [][NextClients]_vars

(* The failure mode a response presents, in the order a client could       *)
(* notice it.                                                              *)
FailureMode(response) ==
    IF response.network = "failed" THEN "network"
    ELSE IF response.status < 200 \/ response.status >= 300 THEN "status"
    ELSE IF response.content_type = "text/html" THEN "content_type"
    ELSE IF response.body = "error_object" THEN "error_payload"
    ELSE "none"

-----------------------------------------------------------------------------
(* The number of source fetches of one aggregation request (SpecFetch).    *)

(* C11 as stated: no aggregation request issues more than two source       *)
(* fetches, whatever the detail cache held when it started.                *)
C11_AtMostTwoFetches ==
    /\ lastOp.op = "refresh_data" => Len(lastOp.fetches) <= 2
    /\ dsLastOp.op = "get_designaciones_with_materias" => Len(dsLastOp.fetches) <= 2

(* C11 amended: an aggregation request issues at most three source         *)
(* fetches. refresh_data() that returns issued exactly three;              *)
(* get_designaciones_with_materias() that returns issued two when the      *)
(* detail cache was loaded at its start and three when it was not, and     *)
(* never more than that when it raises.                                    *)
C11_AtMostThreeFetches ==
    /\ lastOp.op = "refresh_data" =>
          /\ Len(lastOp.fetches) <= 3
          /\ lastOp.outcome = "ok" => Len(lastOp.fetches) = 3
    /\ dsLastOp.op = "get_designaciones_with_materias" =>
          /\ Len(dsLastOp.fetches) <= (IF dsLastOp.cached THEN 2 ELSE 3)
          /\ dsLastOp.outcome = "ok" =>
                Len(dsLastOp.fetches) = (IF dsLastOp.cached THEN 2 ELSE 3)

(* C11 witness: get_designaciones_with_materias() started with an empty    *)
(* detail cache and returned after three fetches, and refresh_data()       *)
(* returned after three.                                                   *)
C11_Witness ==
    /\ dsLastOp.op = "get_designaciones_with_materias"
    /\ dsLastOp.outcome = "ok" /\ ~dsLastOp.cached
    /\ Len(dsLastOp.fetches) = 3
    /\ lastOp.op = "refresh_data" /\ lastOp.outcome = "ok"
    /\ Len(lastOp.fetches) = 3

-----------------------------------------------------------------------------
(* Grouping by person and by department (SpecDocentes).                    *)

InitDocentes ==
    /\ sheetDesignaciones \in Sheets(DocenteDesignaciones)
                                 \cup Sheets(DepartamentoDesignaciones)
    /\ sheetMaterias \in DocenteMaterias
    /\ huaycaMaterias = WithMateriaIds(<<HuaycaMateria("101", TRUE)>>)
    /\ InitCTS
    /\ InitDS
    /\ InitClient
    /\ InitApp

NextDocentes ==
    \/ \E failAt \in 0..3 : get_docentes_with_designaciones(failAt)
    \/ \E failAt \in 0..3 : get_designaciones_by_departamento(failAt)

SpecDocentes == InitDocentes /\ [][NextDocentes]_vars

DocentesRan ==
    dsLastOp.op = "get_docentes_with_designaciones" /\ dsLastOp.outcome = "ok"

(* The flat summary the last grouping started from.                        *)
FlatSummary ==
    DesignacionesSummary(sheetDesignaciones, sheetMaterias, Get(ds_huayca_cache))

(* C12 as stated: the total_designaciones of the profiles add up to the    *)
(* number of designation records, which is the summary's                   *)
(* total_designaciones.                                                    *)
C12_ProfileTotalsAddUpToFlatCount ==
    DocentesRan =>
        LET summary == Get(dsLastOp.summary) IN
        /\ summary.total_designaciones = Len(sheetDesignaciones)
        /\ SumSeq([i \in 1..Len(summary.docentes) |->
                      summary.docentes[i].total_designaciones])
              = Len(sheetDesignaciones)

(* C12 amended: the total_designaciones of the profiles add up to the      *)
(* number of designation records whose person name is not blank; the       *)
(* summary's total_designaciones counts every record, the blank-named ones *)
(* included.                                                               *)
C12_ProfileTotalsAddUpToNamedCount ==
    DocentesRan =>
        LET summary == Get(dsLastOp.summary) IN
        /\ summary.total_designaciones = Len(sheetDesignaciones)
        /\ SumSeq([i \in 1..Len(summary.docentes) |->
                      summary.docentes[i].total_designaciones])
              = Cardinality({i \in 1..Len(sheetDesignaciones) :
                                Strip(sheetDesignaciones[i].apellido_y_nombre) # ""})

(* C12 witness: a grouping over a named and a blank-named designation.     *)
C12_Witness ==
    /\ DocentesRan
    /\ Len(Get(dsLastOp.summary).docentes) >= 1
    /\ \E i \in 1..Len(sheetDesignaciones) :
          Strip(sheetDesignaciones[i].apellido_y_nombre) = ""

(* C13: the profiles are in ascending code-point order of their person     *)
(* name, and no two profiles have the same trimmed name.                   *)
C13_ProfilesSortedByName ==
    DocentesRan =>
        LET docentes == Get(dsLastOp.summary).docentes IN
        /\ \A i, j \in 1..Len(docentes) :
              i < j => StrLess(docentes[i].apellido_y_nombre,
                               docentes[j].apellido_y_nombre)
        /\ \A i, j \in 1..Len(docentes) :
              Strip(docentes[i].apellido_y_nombre)
                  = Strip(docentes[j].apellido_y_nombre) => i = j

(* C13 witness: two profiles returned in the opposite order of their first *)
(* designations in the sheet.                                              *)
C13_Witness ==
    /\ DocentesRan
    /\ LET docentes == Get(dsLastOp.summary).docentes IN
       /\ Len(docentes) >= 2
       /\ docentes[2].designaciones[1].id_redesignacion
             < docentes[1].designaciones[1].id_redesignacion

(* The designations of one person in the flat summary, in order.           *)
DesignacionesOf(name) ==
    SelectSeq(FlatSummary.designaciones,
              LAMBDA d : Strip(d.apellido_y_nombre) = name)

(* C14: a profile lists every designation of its person, each with all its *)
(* courses; total_materias is the sum of their course counts; the display  *)
(* fields are those of the designation with the longest emails field (the  *)
(* first such designation when several are as long).                       *)
C14_DisplayFromLongestEmails ==
    DocentesRan =>
        LET docentes == Get(dsLastOp.summary).docentes IN
        \A p \in 1..Len(docentes) :
            LET profile == docentes[p]
                own == DesignacionesOf(Strip(profile.apellido_y_nombre))
                longest == {i \in 1..Len(own) :
                               \A j \in 1..Len(own) :
                                   Len(own[j].correos) <= Len(own[i].correos)}
                primary == own[CHOOSE i \in longest : \A j \in longest : i <= j]
            IN  /\ profile.designaciones = own
                /\ profile.total_designaciones = Len(own)
                /\ profile.total_materias =
                       SumSeq([i \in 1..Len(own) |-> Len(own[i].materias)])
                /\ profile.apellido_y_nombre = primary.apellido_y_nombre
                /\ profile.legajo = primary.legajo
                /\ profile.correos = primary.correos

(* C14 witness: a person with two designations, the second with the longer *)
(* emails field and at least one course between them; the profile shows    *)
(* the second designation's fields.                                        *)
C14_Witness ==
    /\ DocentesRan
    /\ \E p \in 1..Len(Get(dsLastOp.summary).docentes) :
          LET profile == Get(dsLastOp.summary).docentes[p] IN
          /\ Len(profile.designaciones) = 2
          /\ Len(profile.designaciones[1].correos)
                < Len(profile.designaciones[2].correos)
          /\ profile.correos = profile.designaciones[2].correos
          /\ profile.apellido_y_nombre = profile.designaciones[2].apellido_y_nombre
          /\ profile.apellido_y_nombre # profile.designaciones[1].apellido_y_nombre
          /\ profile.total_materias >= 1

DepartamentosRan ==
    dsLastOp.op = "get_designaciones_by_departamento" /\ dsLastOp.outcome = "ok"

(* C15: the department groups partition the designations: no group has the *)
(* empty key, a designation with a missing, empty or blank department is   *)
(* in the group 'SIN DEPARTAMENTO', every other one in the group of its    *)
(* trimmed department, and every designation is in exactly one group.      *)
C15_DepartmentsPartition ==
    DepartamentosRan =>
        LET groups == Get(dsLastOp.summary)
            places(id) == {gm \in (1..Len(groups)) \X (1..MaxRows) :
                              /\ gm[2] <= Len(groups[gm[1]].designaciones)
                              /\ groups[gm[1]].designaciones[gm[2]].id_redesignacion = id}
        IN  /\ \A g \in 1..Len(groups) :
                  groups[g].key # "" /\ groups[g].designaciones # <<>>
            /\ \A g, h \in 1..Len(groups) : groups[g].key = groups[h].key => g = h
            /\ \A i \in 1..Len(sheetDesignaciones) :
                  LET row == sheetDesignaciones[i]
                      dept == IF Strip(row.departamento) = ""
                              THEN "SIN DEPARTAMENTO" ELSE Strip(row.departamento)
                  IN  /\ Cardinality(places(row.id)) = 1
                      /\ \A gm \in places(row.id) :
                            /\ groups[gm[1]].key = dept
                            /\ groups[gm[1]].designaciones[gm[2]]
                                  = FlatSummary.designaciones[i]
            /\ SumSeq([g \in 1..Len(groups) |-> Len(groups[g].designaciones)])
                  = Len(sheetDesignaciones)

(* C15 witness: a designation with a blank department and one with a       *)
(* department, filed in two groups.                                        *)
C15_Witness ==
    /\ DepartamentosRan
    /\ Len(Get(dsLastOp.summary)) = 2
    /\ \E i \in 1..Len(sheetDesignaciones) : sheetDesignaciones[i].departamento = " "
    /\ \E g \in 1..2 : Get(dsLastOp.summary)[g].key = "SIN DEPARTAMENTO"

(* C16: in every department group the designations are in ascending string *)
(* order of their designation number, those with equal numbers in source   *)
(* order; the department keys are in ascending order.                      *)
C16_SortedWithinDepartments ==
    DepartamentosRan =>
        LET groups == Get(dsLastOp.summary) IN
        /\ \A g \in 1..Len(groups) :
              \A i, j \in 1..Len(groups[g].designaciones) :
                  i < j =>
                      LET a == groups[g].designaciones[i]
                          b == groups[g].designaciones[j]
                      IN  \/ StrLess(a.d_desig, b.d_desig)
                          \/ /\ a.d_desig = b.d_desig
                             /\ a.id_redesignacion < b.id_redesignacion
        /\ \A g, h \in 1..Len(groups) :
              g < h => StrLess(groups[g].key, groups[h].key)

(* C16 witness: a group holding D10 before D2, the reverse of their source *)
(* order and of their numeric order.                                       *)
C16_Witness ==
    /\ DepartamentosRan
    /\ \E g \in 1..Len(Get(dsLastOp.summary)) :
          LET designaciones == Get(dsLastOp.summary)[g].designaciones IN
          /\ Len(designaciones) = 2
          /\ designaciones[1].d_desig = "D10"
          /\ designaciones[2].d_desig = "D2"
          /\ designaciones[2].id_redesignacion < designaciones[1].id_redesignacion

-----------------------------------------------------------------------------
(* The match rates refresh_data() reports (SpecCourses).                   *)

RefreshRan == lastOp.op = "refresh_data" /\ lastOp.outcome = "ok"

(* Two exact fractions are the same number.                                *)
SameRate(a, b) == a.num * b.den = b.num * a.den

(* The share, in percent, of the elements of all that are in matched; 0    *)
(* when there is none.                                                     *)
ShareOf(matched, all) ==
    IF all = {} THEN [num |-> 0, den |-> 1]
    ELSE [num |-> Cardinality(matched) * 100, den |-> Cardinality(all)]

(* C17: the huayca_match_rate of a refresh is the share of the distinct    *)
(* assignment course codes that the detail lookup of the enrichment holds, *)
(* i.e. that are the non-empty cod_guarani of some detail row.             *)
C17_HuaycaRateIsLookupShare ==
    RefreshRan =>
        LET codes == {sheetMaterias[i].cod : i \in 1..Len(sheetMaterias)}
            lookup == HuaycaLookup(huaycaMaterias)
        IN  SameRate(Get(lastOp.status).huayca_match_rate,
                     ShareOf({code \in codes : code \in DOMAIN lookup}, codes))

(* C18: the faculty_match_rate of a refresh is the share of the assignment *)
(* rows for which the designation lookup of the enrichment, keyed by       *)
(* non-empty D Desig, holds a row.                                         *)
C18_FacultyRateIsLookupShare ==
    RefreshRan =>
        LET lookup == FacultyLookup(sheetDesignaciones)
            rows == 1..Len(sheetMaterias)
        IN  SameRate(Get(lastOp.status).faculty_match_rate,
                     ShareOf({i \in rows : sheetMaterias[i].desig \in DOMAIN lookup},
                             rows))

-----------------------------------------------------------------------------
(* The HTTP routes (SpecApp).                                              *)

InitAppEnv ==
    /\ sheetDesignaciones \in Sheets(AppDesignaciones)
    /\ sheetMaterias \in DocenteMaterias
    /\ huaycaMaterias = WithMateriaIds(<<HuaycaMateria("101", TRUE)>>)
    /\ InitCTS
    /\ InitDS
    /\ InitClient
    /\ InitApp

NextApp == \E path \in Paths, failAt \in 0..3 : http_get(path, failAt)

SpecApp == InitAppEnv /\ [][NextApp]_vars

(* C19: GET /designaciones/flat is answered by the flat-list handler, with *)
(* the flat summary of every designation when its fetches succeed.         *)
C19_FlatPathServedByFlatHandler ==
    (~IsNone(httpResponse) /\ Get(httpResponse).path = <<"designaciones", "flat">>) =>
        /\ Get(httpResponse).endpoint = "get_all_designaciones_flat"
        /\ Get(httpResponse).status_code \in {200, 500}
        /\ Get(httpResponse).status_code = 200 =>
              /\ Get(httpResponse).body = Some(FlatSummary)
              /\ Len(FlatSummary.designaciones) = Len(sheetDesignaciones)

-----------------------------------------------------------------------------
(* Enrichment run twice (SpecEnrich).                                      *)

NextEnrich ==
    \/ \E failAt \in 0..3 : refresh_data(failAt)
    \/ detect_unique_courses
    \/ enrich_again

SpecEnrich == InitCourses /\ [][NextEnrich]_vars

(* C20: a second run of the faculty and detail enrichment over an enriched *)
(* Course collection, the source data unchanged, leaves every              *)
(* personal_details and every huayca_details as the first run set them.    *)
C20_EnrichmentIdempotent ==
    [][lastOp'.op = "enrich_again" => lastOp'.courses = lastOp.courses]_vars

(* C20 witness: enrichment has run again over a collection in which a      *)
(* member has personal_details and a course has huayca_details.            *)
C20_Witness ==
    /\ lastOp.op = "enrich_again"
    /\ \E member \in AllMembers(lastOp.courses) : ~IsNone(member.personal_details)
    /\ \E c \in 1..Len(lastOp.courses) : ~IsNone(lastOp.courses[c].huayca_details)

-----------------------------------------------------------------------------
(* The read-only calls of both services, over remote tables that change.   *)

NextFrame ==
    \/ \E failAt \in 0..3 : refresh_data(failAt)
    \/ detect_unique_courses
    \/ generate_summary
    \/ \E cod_siu \in {"101", "102"}, periodo \in {"1CUAT", "2CUAT"} :
          get_course_by_code_and_period(cod_siu, periodo)
    \/ \E career \in {"lmat", "LFIS"} : get_courses_by_career(career)
    \/ \E department \in {"matematica", "FISICA"} : get_courses_by_department(department)
    \/ \E failAt \in 0..3 : get_designaciones_with_materias(failAt)
    \/ huayca_changes

SpecFrame == InitFetch /\ [][NextFrame]_vars

(* The read-only calls of CourseTeamService: each leaves its name in       *)
(* lastOp, and no other call does.                                         *)
CtsReadOnlyCalls ==
    {"detect_unique_courses", "generate_summary", "get_course_by_code_and_period",
     "get_courses_by_career", "get_courses_by_department"}

(* C21: detect_unique_courses(), generate_summary() and the get_course(s)  *)
(* queries leave the three caches of CourseTeamService as they were, and   *)
(* get_designaciones_with_materias() leaves a filled _huayca_cache as it    *)
(* was, whatever the remote table has become.                              *)
C21_ReadsLeaveCachesUnchanged ==
    [][/\ lastOp'.op \in CtsReadOnlyCalls =>
             UNCHANGED <<materias_equipo_cache, designaciones_cache, huayca_cache>>
       /\ (dsLastOp'.op = "get_designaciones_with_materias"
              /\ ~IsNone(ds_huayca_cache)) =>
             ds_huayca_cache' = ds_huayca_cache]_vars

(* C21 witness: generate_summary() has run on loaded caches, and            *)
(* get_designaciones_with_materias() was served from a cache that no       *)
(* longer equals the remote table.                                         *)
C21_Witness ==
    /\ lastOp.op = "generate_summary" /\ lastOp.outcome = "ok"
    /\ ~IsNone(materias_equipo_cache) /\ ~IsNone(huayca_cache)
    /\ dsLastOp.op = "get_designaciones_with_materias"
    /\ dsLastOp.outcome = "ok" /\ dsLastOp.cached
    /\ ds_huayca_cache # Some(huaycaMaterias)

(* The row number of the first loaded assignment with this key.            *)
FirstOccurrence(rows, key) ==
    CHOOSE i \in 1..Len(rows) :
        /\ KeyOf(rows[i]) = key
        /\ \A j \in 1..(i - 1) : KeyOf(rows[j]) # key

-----------------------------------------------------------------------------
(* The summary and the lookups of CourseTeamService.                       *)

InitQueries ==
    /\ sheetMaterias \in {WithIds(r) : r \in Rows(QueryAssignments, MaxQueryRows)}
    /\ sheetDesignaciones = WithIds(<<Designacion("D1", TRUE)>>)
    /\ huaycaMaterias \in QueryHuaycaVersions
    /\ InitCTS
    /\ InitDS
    /\ InitClient
    /\ InitApp

NextQueries ==
    \/ \E failAt \in 0..3 : refresh_data(failAt)
    \/ detect_unique_courses
    \/ generate_summary
    \/ \E cod_siu \in {"101", "102"}, periodo \in {"1CUAT", "2CUAT"} :
          get_course_by_code_and_period(cod_siu, periodo)

SpecQueries == InitQueries /\ [][NextQueries]_vars

SummaryRan == lastOp.op = "generate_summary" /\ lastOp.outcome = "ok"

Summary == Get(lastOp.result)

(* The sum of the counts of a histogram.                                   *)
RECURSIVE HistogramTotal(_)
HistogramTotal(histogram) ==
    IF DOMAIN histogram = {} THEN 0
    ELSE LET k == CHOOSE x \in DOMAIN histogram : TRUE IN
         histogram[k] + HistogramTotal([x \in DOMAIN histogram \ {k} |-> histogram[x]])

(* C23: in the summary, total_courses is the number of detected courses,   *)
(* total_assignments the number of team members over all courses,          *)
(* unique_faculty the number of distinct legajo among them, and the        *)
(* per-period and per-career histograms each add up to total_courses.      *)
C23_SummaryCounts ==
    SummaryRan =>
        /\ Summary.total_courses = Len(lastOp.courses)
        /\ Summary.total_assignments = Cardinality(MemberPositions(lastOp.courses))
        /\ Summary.unique_faculty =
               Cardinality({member.legajo : member \in AllMembers(lastOp.courses)})
        /\ HistogramTotal(Summary.courses_by_period) = Summary.total_courses
        /\ HistogramTotal(Summary.courses_by_career) = Summary.total_courses

(* C23 witness: a summary of two courses of two periods, three team        *)
(* members and two people.                                                 *)
C23_Witness ==
    /\ SummaryRan
    /\ Summary.total_courses = 2
    /\ Summary.total_assignments = 3
    /\ Summary.unique_faculty = 2
    /\ Cardinality(DOMAIN Summary.courses_by_period) = 2

(* The detected courses that have a department: Huayca details attached    *)
(* and a depto that is not empty.                                          *)
CoursesWithDepartment(courses) ==
    {c \in 1..Len(courses) :
        /\ ~IsNone(courses[c].huayca_details)
        /\ Get(courses[c].huayca_details).depto # ""}

(* C24: a course without a department from Huayca details is left out of   *)
(* the department histogram but still counted in total_courses and in the  *)
(* period and career histograms; the department histogram adds up to the   *)
(* number of courses with a department, which never exceeds total_courses  *)
(* minus courses_without_huayca_data.                                      *)
C24_DepartmentHistogramSkipsCoursesWithoutDepartment ==
    SummaryRan =>
        /\ \A d \in DOMAIN Summary.courses_by_department :
              /\ d # ""
              /\ Summary.courses_by_department[d] =
                     Cardinality({c \in CoursesWithDepartment(lastOp.courses) :
                                     Get(lastOp.courses[c].huayca_details).depto = d})
        /\ HistogramTotal(Summary.courses_by_department) =
               Cardinality(CoursesWithDepartment(lastOp.courses))
        /\ HistogramTotal(Summary.courses_by_department) <=
               Summary.total_courses - Summary.courses_without_huayca_data
        /\ Summary.total_courses = Len(lastOp.courses)
        /\ HistogramTotal(Summary.courses_by_period) = Len(lastOp.courses)
        /\ HistogramTotal(Summary.courses_by_career) = Len(lastOp.courses)

(* C24 witness: a summary whose department histogram holds one of three    *)
(* courses, the other two having Huayca details with an empty depto.       *)
C24_Witness ==
    /\ SummaryRan
    /\ Summary.total_courses = 3
    /\ Summary.courses_without_huayca_data = 0
    /\ DOMAIN Summary.courses_by_department = {"FISICA"}
    /\ Summary.courses_by_department["FISICA"] = 1

(* C24 witness of the other case: a course without Huayca details is       *)
(* counted in total_courses and in no department.                          *)
C24_WitnessNoDetails ==
    /\ SummaryRan
    /\ Summary.total_courses = 2
    /\ Summary.courses_without_huayca_data = 1
    /\ DOMAIN Summary.courses_by_department = {"MATEMATICA"}

LookupRan ==
    /\ lastOp.op = "get_course_by_code_and_period"
    /\ ~IsNone(materias_equipo_cache)

(* C25: on loaded data, get_course_by_code_and_period(code, period)        *)
(* returns a course with that code and that period when the loaded         *)
(* assignments hold a row with both, and returns None, without raising,    *)
(* when they hold none.                                                    *)
C25_LookupReturnsCourseOrNone ==
    LookupRan =>
        /\ lastOp.outcome = "ok"
        /\ LET query == Get(lastOp.result)
               present == \E i \in 1..Len(DetectInput) :
                             KeyOf(DetectInput[i]) = <<query.cod_siu, query.periodo>>
           IN  IF present
               THEN /\ ~IsNone(query.course)
                    /\ CourseKey(Get(query.course)) = <<query.cod_siu, query.periodo>>
               ELSE IsNone(query.course)

(* The same, for the lookups in which detect_unique_courses() returned.    *)
C25_LookupReturnsCourseOrNoneWhenDetected ==
    (LookupRan /\ lastOp.outcome = "ok") =>
        LET query == Get(lastOp.result)
            present == \E i \in 1..Len(DetectInput) :
                          KeyOf(DetectInput[i]) = <<query.cod_siu, query.periodo>>
        IN  IF present
            THEN /\ ~IsNone(query.course)
                 /\ CourseKey(Get(query.course)) = <<query.cod_siu, query.periodo>>
            ELSE IsNone(query.course)

(* A rate, as an exact fraction, lies between 0 and 100.                   *)
IsPercentage(rate) ==
    /\ rate.den > 0
    /\ 0 <= rate.num
    /\ rate.num <= 100 * rate.den

(* C26: after a refresh_data() that returned, the three caches are set,    *)
(* the three counts of the returned status are the lengths of the cached   *)
(* tables, and both match rates lie between 0 and 100 inclusive.           *)
C26_RefreshLoadsAllAndReportsCounts ==
    RefreshRan =>
        /\ ~IsNone(materias_equipo_cache)
        /\ ~IsNone(designaciones_cache)
        /\ ~IsNone(huayca_cache)
        /\ LET status == Get(lastOp.status) IN
           /\ status.materias_equipo_count = Len(Get(materias_equipo_cache))
           /\ status.designaciones_docentes_count = Len(Get(designaciones_cache))
           /\ status.huayca_materias_count = Len(Get(huayca_cache))
           /\ IsPercentage(status.faculty_match_rate)
           /\ IsPercentage(status.huayca_match_rate)

(* C26 witness: a refresh of two assignments and one designation row, both *)
(* assignments matched: a faculty match rate of exactly 100.               *)
C26_Witness ==
    /\ RefreshRan
    /\ Get(lastOp.status).materias_equipo_count = 2
    /\ Get(lastOp.status).designaciones_docentes_count = 1
    /\ Get(lastOp.status).faculty_match_rate = [num |-> 200, den |-> 2]

(* C27: refresh_data() is all-or-nothing: a call that raises leaves the    *)
(* three caches holding what they held before the call.                    *)
C27_FailedRefreshKeepsCaches ==
    [][(lastOp'.op = "refresh_data" /\ lastOp'.outcome = "raised") =>
          UNCHANGED <<materias_equipo_cache, designaciones_cache, huayca_cache>>]_vars

(* What the code does instead: a call that raises at its k-th fetch has    *)
(* replaced the caches of the fetches before it and kept the others.       *)
C27_FailedRefreshKeepsLaterCaches ==
    [][(lastOp'.op = "refresh_data" /\ lastOp'.outcome = "raised") =>
          LET failAt == Len(lastOp'.fetches) IN
          /\ failAt <= 1 => UNCHANGED materias_equipo_cache
          /\ failAt <= 2 => UNCHANGED designaciones_cache
          /\ UNCHANGED huayca_cache]_vars

(* C28: once clear_cache() has returned, a _get_huayca_data() call that    *)
(* starts afterwards returns records of a fetch that started after the     *)
(* clear, also when the clear ran while another request's fetch was in     *)
(* flight.                                                                 *)
C28_GetAfterClearReturnsFreshData ==
    [][\A t \in Threads :
          (pc[t] = "return" /\ pc'[t] = "idle" /\ sinceClear.call[t]) =>
              sinceClear.cache]_vars

SummaryCallRan ==
    dsLastOp.op = "get_designaciones_with_materias" /\ dsLastOp.outcome = "ok"

(* The designations of the summary that list the assignment with this id.  *)
ListedUnder(designaciones, id) ==
    {i \in 1..Len(designaciones) :
        \E m \in 1..Len(designaciones[i].materias) :
            designaciones[i].materias[m].id_redesignacion_materia = id}

(* C29: in the result of get_designaciones_with_materias() every           *)
(* assignment record is listed under at most one designation, so           *)
(* total_materias_asignadas never exceeds the number of assignment records *)
(* with a non-empty Desig, also when two designation records carry the     *)
(* same number.                                                            *)
C29_AssignmentUnderAtMostOneDesignation ==
    SummaryCallRan =>
        LET summary == Get(dsLastOp.summary) IN
        /\ \A j \in 1..Len(sheetMaterias) :
              Cardinality(ListedUnder(summary.designaciones, sheetMaterias[j].id)) <= 1
        /\ summary.total_materias_asignadas <=
               Cardinality({j \in 1..Len(sheetMaterias) : Strip(sheetMaterias[j].desig) # ""})

(* What holds as well when designation numbers repeat: an assignment is    *)
(* listed exactly under the designation records whose stripped D Desig is  *)
(* its non-empty stripped Desig, once under each.                          *)
C29_AssignmentUnderEveryEqualDesignation ==
    SummaryCallRan =>
        LET summary == Get(dsLastOp.summary) IN
        \A j \in 1..Len(sheetMaterias) :
            ListedUnder(summary.designaciones, sheetMaterias[j].id) =
                {i \in 1..Len(sheetDesignaciones) :
                    /\ Strip(sheetMaterias[j].desig) # ""
                    /\ Strip(sheetDesignaciones[i].d_desig) = Strip(sheetMaterias[j].desig)}

-----------------------------------------------------------------------------
(* The crub_courses web app (ui/fastapi_app.py): the module-level service  *)
(* and the handlers that depend on it.                                     *)

(* The three caches after a refresh_data() whose failAt-th fetch raises    *)
(* (0: none does).                                                         *)
CachesAfterRefresh(failAt) ==
    [materias_equipo |->
         IF failAt = 1 THEN materias_equipo_cache ELSE Some(sheetMaterias),
     designaciones |->
         IF failAt \in {1, 2} THEN designaciones_cache ELSE Some(sheetDesignaciones),
     huayca |->
         IF failAt # 0 THEN huayca_cache ELSE Some(huaycaMaterias)]

(* get_service(): the global is assigned the new CourseTeamService before  *)
(* its refresh_data() runs, and nothing resets it when that raises.        *)
ServiceAfterGet(failAt) == Some("CourseTeamService")

(* A request to a handler with Depends(get_service): get_service() creates *)
(* and refreshes the service when the global is None and returns the       *)
(* global otherwise; an exception of the first refresh ends the request,   *)
(* otherwise the handler body runs. refreshes says whether the body is    *)
(* service.refresh_data() (POST /api/refresh-data, whose exception becomes *)
(* an HTTP 500) or service.detect_unique_courses() (GET /api/courses).     *)
ServiceRequest(endpoint, refreshes, failAt) ==
    LET creating == IsNone(_service_instance)
        first == IF creating THEN CachesAfterRefresh(failAt)
                 ELSE [materias_equipo |-> materias_equipo_cache,
                       designaciones |-> designaciones_cache,
                       huayca |-> huayca_cache]
        bodyRuns == ~creating \/ failAt = 0
        bodyFailAt == IF creating THEN 0 ELSE failAt
    IN  /\ refreshes \/ creating \/ failAt = 0
        /\ _service_instance' = ServiceAfterGet(failAt)
        /\ materias_equipo_cache' =
               IF bodyRuns /\ refreshes /\ bodyFailAt # 1
               THEN Some(sheetMaterias) ELSE first.materias_equipo
        /\ designaciones_cache' =
               IF bodyRuns /\ refreshes /\ bodyFailAt \notin {1, 2}
               THEN Some(sheetDesignaciones) ELSE first.designaciones
        /\ huayca_cache' =
               IF bodyRuns /\ refreshes /\ bodyFailAt = 0
               THEN Some(huaycaMaterias) ELSE first.huayca
        /\ lastOp' =
               IF ~bodyRuns
               THEN [NoOp EXCEPT !.op = "get_service", !.outcome = "raised",
                        !.error = ClientError(RefreshRequests[failAt])]
               ELSE IF refreshes
               THEN (IF bodyFailAt = 0
                     THEN [NoOp EXCEPT !.op = endpoint, !.outcome = "ok",
                              !.status = Some(DataSourceStatus(sheetMaterias,
                                                               sheetDesignaciones,
                                                               huaycaMaterias))]
                     ELSE [NoOp EXCEPT !.op = endpoint, !.outcome = "raised",
                              !.error = "HTTPException"])
               ELSE LET r == DetectUniqueCourses(first.materias_equipo,
                                                 first.designaciones, first.huayca)
                    IN  [NoOp EXCEPT !.op = endpoint, !.outcome = r.outcome,
                            !.error = r.error, !.courses = r.courses]
        /\ httpResponse' = httpResponse
        /\ UNCHANGED <<envVars, dsVars, clientVars>>

(* GET /api/courses without filters.                                       *)
get_courses(failAt) == ServiceRequest("get_courses", FALSE, failAt)

(* POST /api/refresh-data.                                                 *)
api_refresh_data(failAt) == ServiceRequest("refresh_data", TRUE, failAt)

NextService ==
    \/ \E failAt \in 0..3 : get_courses(failAt)
    \/ \E failAt \in 0..3 : api_refresh_data(failAt)
    \/ huayca_changes

SpecService == InitFetch /\ [][NextService]_vars

(* C30: get_service() never hands out a CourseTeamService whose data is    *)
(* not loaded: whenever _service_instance is set, a refresh_data() has     *)
(* completed on it, and detect_unique_courses() behind get_service() never *)
(* raises "Data not loaded", also after a first get_service() whose        *)
(* refresh_data() raised.                                                  *)
C30_ServiceInstanceIsLoaded ==
    /\ ~IsNone(_service_instance) =>
          /\ ~IsNone(materias_equipo_cache)
          /\ ~IsNone(designaciones_cache)
          /\ ~IsNone(huayca_cache)
    /\ ~(lastOp.op = "get_courses" /\ lastOp.outcome = "raised"
            /\ lastOp.error = "ValueError")

=============================================================================
